---- MODULE Spec2Model ----
(***************************************************************************)
(* A model of the bhumi relay (bhumi-relay: router.rs, session.rs) and of  *)
(* the endpoints that talk through it (bhumi-node: node.rs, state.rs,      *)
(* connection.rs; bhumi-device: lib.rs, main.rs; bhumi-esp32: main.rs,     *)
(* state.rs, switch.rs; the smart-switch examples).                        *)
(*                                                                         *)
(* A preimage is a number; its commit is sha256(preimage), a value of a    *)
(* different shape, so a commit set never holds a preimage by accident.    *)
(* random_bytes() draws the next unused number.                            *)
(*                                                                         *)
(* Spec     : the relay driven by arbitrary clients (any frame a TCP peer  *)
(*            can write is an input of Session::handle_frame).             *)
(* NodeSpec : the relay driven by two endpoints running the bhumi-node /   *)
(*            bhumi-device library code.                                   *)
(* QueueSpec: the relay with a registered device that has stopped reading, *)
(*            its channel filled up to ChannelDepth.                       *)
(* HandlerSpec : one serving endpoint in each of its four implementations  *)
(*            (Node::run, Device::run, cmd_listen, run_connection), paired *)
(*            with a peer of each role, driven by a caller that sends any  *)
(*            handshake, command or message.                               *)
(* FlightSpec: the relay with a registered recipient and two connections   *)
(*            that never sent I_AM, with several requests in flight.       *)
(* CodecSpec : the wire codec of bhumi-proto and the invite tokens, on     *)
(*            bytes: one value is encoded and decoded per run.             *)
(* SweepSpec : Spec with a task that calls Router::cleanup_cache.          *)
(* FaultSpec : HandlerSpec with writes of the serving endpoint that fail.   *)
(* CrossSpec : the relay with A and B registered, each sending to the other *)
(*            and acknowledging every DELIVER; CrossLive adds fairness.     *)
(* OwnerSpec : Spec with clients that hold the keys of both identifiers.    *)
(***************************************************************************)
EXTENDS Integers, Sequences, FiniteSets, TLC

\* ------------------------------------------------------------------ bounds
MaxSessions == 5        \* connections the relay accepts in one run
MaxClients == 2         \* of these, connections that arbitrary clients open
MaxPreimage == 2        \* preimages the arbitrary clients draw from
MaxRandom == 6          \* preimages random_bytes() hands to the endpoints
MaxMsgId == 40          \* msg_ids the router hands out before the model stops admitting
MaxAckId == 2           \* msg_ids the arbitrary clients name in an ACK
MaxInvites == 2         \* invites an endpoint's operator creates
MaxOutbox == 2          \* frames buffered towards a client that does not read
MaxInbox == 2           \* frames buffered towards the relay
TickSecs == 300         \* the clock advances in steps of this many seconds
MaxFrames == 5          \* frames the arbitrary clients write in one run
MaxTime == 300          \* the clock stops here

\* ------------------------------------------------------- program constants
SEND_OK == 0
SEND_ERR_NOT_CONNECTED == 1
SEND_ERR_INVALID_PREIMAGE == 2
SEND_ERR_TIMEOUT == 3
SEND_ERR_DISCONNECTED == 4
CacheTtlSecs == 300
SendTimeoutSecs == 30
ChannelDepth == 32

None == "none"
Ids == {"A", "B"}
Sessions == 1..MaxSessions
Preimages == 1..MaxPreimage
AckIds == 1..MaxAckId

\* SHA-256 of a preimage: injective, and never equal to a preimage.
sha256(p) == <<"sha256", p>>
Commits == {sha256(p) : p \in Preimages}

\* HashMap insert / remove on a function whose DOMAIN is the key set.
MapPut(m, k, v) == [x \in (DOMAIN m) \cup {k} |-> IF x = k THEN v ELSE m[x]]
MapDel(m, k) == [x \in (DOMAIN m) \ {k} |-> m[x]]
EmptyMap == [x \in {} |-> None]

\* Payload bytes.  Vec::new() is EmptyPayload; an opaque byte string is Raw(b).
EmptyPayload == [tag |-> "empty"]
Raw(b) == [tag |-> "raw", body |-> b]
ClientPayloads == {Raw("m1")}
ClientResponses == {Raw("r1")}

VARIABLES
    devices,         \* Router.devices: id52 -> [commits, sender]
    response_cache,  \* Router.response_cache: preimage -> [response, expires_at]
    pending,         \* Router.pending: msg_id -> [preimage, tx]
    next_msg_id,     \* Router.next_msg_id
    sess,            \* Session: [status, id52] per connection
    route,           \* the locals of the route_message call a session is inside
    rx,              \* the mpsc queue of PendingDelivery a session drains
    inbox,           \* frames written by the client, not yet read by the session
    outbox,          \* frames written by the session, not yet read by the client
    link,            \* "up": the client reads outbox at its own pace; "sink": it reads
                     \* every frame as it is written; "down": its end is closed
    now,             \* Instant::now(), in seconds
    admitted,        \* history: <<to_id52, preimage>> -> the msg_id of the SEND admitted
                     \* for it; 0 once the ACK of that msg_id was processed or the
                     \* endpoint left devices
    sent,            \* history: msg_id -> the to_id52 of the SEND it was allocated for
    frames,          \* how many frames the arbitrary clients have written
    loaded,          \* history: preimage -> [response, at] of the last I_AM that listed
                     \* it in recent_responses, until the next SEND with that preimage
                     \* is looked up
    acked,           \* history: preimage -> [to_id52, response, at, preloaded] of the ACK
                     \* processed for it, until the next SEND with that preimage is
                     \* looked up; preloaded: a later I_AM listed the preimage in its
                     \* recent_responses
    state,           \* Node.state: the DeviceState of each endpoint, in memory
    disk,            \* state.json of each endpoint: what DeviceState::save wrote last
    ep,              \* where each endpoint's process is: [pc, conn, ...]
    rng,             \* the next value random_bytes() returns
    tokens,          \* the invite tokens handed out so far (the invite preimages)
    renewed,         \* history: delivery preimage -> the successor the recipient
                     \* generated while it handled that delivery
    codec            \* a value handed to an encoder, the bytes the encoder wrote and
                     \* what the decoder made of them: [layer, value, bytes, decoded]

relayVars == <<devices, response_cache, pending, next_msg_id>>
sessVars == <<sess, route, rx, inbox, outbox, link>>
histVars == <<admitted, sent, acked, frames, loaded>>
nodeVars == <<state, disk, ep, rng, tokens, renewed, codec>>
vars == <<devices, response_cache, pending, next_msg_id, sess, route, rx, inbox,
          outbox, link, now, admitted, sent, acked, frames, loaded, state, disk, ep, rng,
          tokens, renewed, codec>>

\* No encoder has run.
NoCodec == [layer |-> "none", value |-> [type |-> "none"], bytes |-> <<>>,
            decoded |-> [type |-> "none"]]

IdleRoute == [pc |-> "idle", to_id52 |-> None, preimage |-> 0, payload |-> EmptyPayload,
              msg_id |-> 0, sender |-> 0, deadline |-> 0, got |-> FALSE,
              status |-> SEND_OK, response |-> EmptyPayload]

\* ------------------------------------------------------------------ frames
IAmFrame(id, ok, cs, rr) ==
    [msg_type |-> "I_AM", id52 |-> id, sig_ok |-> ok, commits |-> cs, recent_responses |-> rr]
SendFrame(to, p, pl) == [msg_type |-> "SEND", to_id52 |-> to, preimage |-> p, payload |-> pl]
AckFrame(m, pl) == [msg_type |-> "ACK", msg_id |-> m, payload |-> pl]
UpdateCommitsFrame(cs) == [msg_type |-> "UPDATE_COMMITS", commits |-> cs]
MalformedFrame == [msg_type |-> "MALFORMED"]
\* A frame of a type the relay has no handler for (KEEPALIVE, a HELLO or DELIVER sent
\* towards the relay, a number that names no type), and a frame whose header
\* announces more than 1 MiB.
UnknownFrame == [msg_type |-> "UNKNOWN"]
OversizeFrame == [msg_type |-> "OVERSIZE"]
DeliverFrame(m, p, pl) == [msg_type |-> "DELIVER", msg_id |-> m, preimage |-> p, payload |-> pl]
SendResultFrame(st, pl) == [msg_type |-> "SEND_RESULT", status |-> st, payload |-> pl]

\* DeviceState::default()
EmptyState == [invites |-> EmptyMap, pending_peers |-> EmptyMap, peers |-> EmptyMap]

\* An endpoint process that is not running any operation.
IdleEndpoint(l) == [pc |-> "off", lib |-> l, conn |-> 0, todo |-> <<>>, peer |-> None,
                    req |-> 0, mine |-> 0, how |-> "", handlers |-> {}, is_on |-> FALSE,
                    accepted |-> {}]

InitRelay ==
    /\ devices = EmptyMap
    /\ response_cache = EmptyMap
    /\ pending = EmptyMap
    /\ next_msg_id = 1
    /\ sess = [s \in Sessions |-> [status |-> "new", id52 |-> None]]
    /\ route = [s \in Sessions |-> IdleRoute]
    /\ rx = [s \in Sessions |-> <<>>]
    /\ inbox = [s \in Sessions |-> <<>>]
    /\ outbox = [s \in Sessions |-> <<>>]
    /\ link = [s \in Sessions |-> "down"]
    /\ now = 0
    /\ admitted = EmptyMap
    /\ sent = EmptyMap
    /\ acked = EmptyMap
    /\ loaded = EmptyMap
    /\ frames = 0

InitNodes(libs) ==
    /\ state = [e \in Ids |-> EmptyState]
    /\ disk = [e \in Ids |-> EmptyState]
    /\ \E l \in libs : ep = [e \in Ids |-> IdleEndpoint(IF e = "A" THEN "node" ELSE l)]
    /\ rng = 1
    /\ tokens = {}
    /\ renewed = EmptyMap
    /\ codec = NoCodec

Init == InitRelay /\ InitNodes({"node"})
NodeInit == InitRelay /\ InitNodes({"node"})

\* ------------------------------------------------------------------ router
\* Router::register, the devices half: insert replaces any entry of the same id.
Register(devs, id, cs, s) == MapPut(devs, id, [commits |-> cs, sender |-> s])

\* Router::unregister.
Unregister(devs, id) == MapDel(devs, id)

\* Router::register, the cache half: every recent response is inserted with a fresh TTL.
RECURSIVE LoadResponses(_, _, _)
LoadResponses(cache, rr, expires) ==
    IF rr = <<>> THEN cache
    ELSE LoadResponses(MapPut(cache, Head(rr).preimage,
                              [response |-> Head(rr).response, expires_at |-> expires]),
                       Tail(rr), expires)

\* A router that loads the recent responses of an I_AM as entries already expired.
RecentExpiry_Now(t) == t

\* Router::register: expires_at of the entries made for recent_responses.
RecentExpiry(t) == t + CacheTtlSecs

\* A router that reads the cached entry and leaves it in the cache.
CacheRemove_Peek(cache, p) == cache

\* route_message step 1: cache.remove(&preimage)
CacheRemove(cache, p) == MapDel(cache, p)

\* A router whose cache lookup never serves an entry.
CacheHitNever(cache, p, t) == FALSE

\* A router whose lookup still serves an entry at the instant it expires.
CacheHit_AtExpiry(cache, p, t) == p \in DOMAIN cache /\ cache[p].expires_at >= t

\* route_message step 1: the entry is taken out of the cache and served if unexpired.
CacheHit(cache, p, t) == p \in DOMAIN cache /\ cache[p].expires_at > t

\* Router::cleanup_cache: cache.retain(|_, v| v.expires_at > now)
cleanup_cache(cache, t) ==
    [p \in {q \in DOMAIN cache : cache[q].expires_at > t} |-> cache[p]]

\* A router that does not tell a missing endpoint from a missing commit.
ValidateStatusUnordered(devs, to, p) ==
    IF to \in DOMAIN devs /\ sha256(p) \in devs[to].commits
    THEN SEND_OK ELSE SEND_ERR_INVALID_PREIMAGE

\* route_message step 3: the status the devices lookup decides (SEND_OK: admitted).
ValidateStatus(devs, to, p) ==
    IF to \notin DOMAIN devs THEN SEND_ERR_NOT_CONNECTED
    ELSE IF sha256(p) \notin devs[to].commits THEN SEND_ERR_INVALID_PREIMAGE
    ELSE SEND_OK

\* device.commits.remove(&commit)
ConsumeCommit(devs, to, c) == [devs EXCEPT ![to].commits = @ \ {c}]

\* What the session does with an inbound UPDATE_COMMITS frame: handle_frame has no
\* arm for MSG_UPDATE_COMMITS, the frame falls into `other` and is only logged.
ApplyUpdateCommits(devs, id, cs) == devs

\* ----------------------------------------------------------------- session
\* Session::run returns (an error of read_frame, handle_frame or write_frame is
\* propagated by `?`): the stream and rx are dropped.  The cleanup after the loop is
\* not reached on this path, so devices keeps the entry.
CloseSession(s) ==
    /\ sess' = [sess EXCEPT ![s].status = "closed"]
    /\ route' = [route EXCEPT ![s] = IdleRoute]
    /\ rx' = [rx EXCEPT ![s] = <<>>]
    /\ inbox' = [inbox EXCEPT ![s] = <<>>]

Reading(s) == sess[s].status = "open" /\ route[s].pc = "idle"

\* write_frame on a live connection: the frame waits in outbox for the client.
CanWrite(s) == link[s] = "sink" \/ Len(outbox[s]) < MaxOutbox
Written(s, f) == IF link[s] = "sink" THEN outbox ELSE [outbox EXCEPT ![s] = Append(@, f)]

\* History: the admissions in keys are over.
Retire(adm, keys) == [k \in DOMAIN adm |-> IF k \in keys THEN 0 ELSE adm[k]]

\* History: the preimages an I_AM lists in recent_responses.
RecentPreimages(rr) == {rr[i].preimage : i \in DOMAIN rr}

\* History: the recent responses listed at time t; of two entries for one preimage
\* the later one stays, as in the cache.
Listed(ld, rr, t) ==
    [p \in DOMAIN ld \cup RecentPreimages(rr) |->
        IF p \in RecentPreimages(rr)
        THEN LET last == CHOOSE i \in DOMAIN rr :
                            /\ rr[i].preimage = p
                            /\ \A j \in DOMAIN rr : rr[j].preimage = p => j <= i
             IN [response |-> rr[last].response, at |-> t]
        ELSE ld[p]]

\* Session::handle_i_am
HandleIAm(s, f, rest) ==
    IF ~f.sig_ok
    THEN /\ CloseSession(s)
         /\ UNCHANGED <<relayVars, outbox, link, admitted, sent, acked, loaded>>
    ELSE /\ devices' = Register(IF sess[s].id52 # None
                                THEN Unregister(devices, sess[s].id52) ELSE devices,
                                f.id52, f.commits, s)
         /\ response_cache' = LoadResponses(response_cache, f.recent_responses,
                                            RecentExpiry(now))
         /\ sess' = [sess EXCEPT ![s].id52 = f.id52]
         /\ inbox' = [inbox EXCEPT ![s] = rest]
         /\ admitted' = Retire(admitted, {k \in DOMAIN admitted : k[1] \notin DOMAIN devices'})
         /\ acked' = [p \in DOMAIN acked |->
                         IF p \in RecentPreimages(f.recent_responses)
                         THEN [acked[p] EXCEPT !.preloaded = TRUE] ELSE acked[p]]
         /\ loaded' = Listed(loaded, f.recent_responses, now)
         /\ UNCHANGED <<pending, next_msg_id, route, rx, outbox, link, sent>>

\* Session::handle_send up to the end of route_message step 1 (the cache lock).
HandleSend(s, f, rest) ==
    /\ response_cache' = CacheRemove(response_cache, f.preimage)
    /\ route' = [route EXCEPT ![s] =
          IF CacheHit(response_cache, f.preimage, now)
          THEN [IdleRoute EXCEPT !.pc = "reply", !.to_id52 = f.to_id52,
                                 !.preimage = f.preimage, !.payload = f.payload,
                                 !.status = SEND_OK,
                                 !.response = response_cache[f.preimage].response]
          ELSE [IdleRoute EXCEPT !.pc = "validate", !.to_id52 = f.to_id52,
                                 !.preimage = f.preimage, !.payload = f.payload]]
    /\ acked' = MapDel(acked, f.preimage)
    /\ loaded' = MapDel(loaded, f.preimage)
    /\ inbox' = [inbox EXCEPT ![s] = rest]
    /\ UNCHANGED <<devices, pending, next_msg_id, sess, rx, outbox, link, admitted, sent>>

\* A router that gives an ACK to the oldest pending request, whatever its msg_id.
Correlate_Oldest(pend, m) ==
    IF DOMAIN pend = {} THEN 0
    ELSE CHOOSE k \in DOMAIN pend : \A j \in DOMAIN pend : k <= j

\* A router that gives an ACK naming no pending request to the newest one.
Correlate_Newest(pend, m) ==
    IF m \in DOMAIN pend THEN m
    ELSE IF DOMAIN pend = {} THEN 0
    ELSE CHOOSE k \in DOMAIN pend : \A j \in DOMAIN pend : k >= j

\* pending.remove(&msg_id): the key of the entry an ACK takes out, 0 for None
\* (msg_ids start at 1).
Correlate(pend, m) == IF m \in DOMAIN pend THEN m ELSE 0

\* Session::handle_ack and Router::handle_ack
HandleAck(s, f, rest) ==
    LET k == Correlate(pending, f.msg_id) IN
    /\ inbox' = [inbox EXCEPT ![s] = rest]
    /\ IF k # 0
       THEN LET e == pending[k] IN
            /\ pending' = MapDel(pending, k)
            /\ response_cache' = MapPut(response_cache, e.preimage,
                   [response |-> f.payload, expires_at |-> now + CacheTtlSecs])
            \* tx.send(response): received if the caller still holds response_rx,
            \* which it does from the pending.insert to the end of its wait
            /\ route' = IF route[e.tx].pc \in {"enqueue", "wait"} /\ route[e.tx].msg_id = k
                        THEN [route EXCEPT ![e.tx].got = TRUE, ![e.tx].response = f.payload]
                        ELSE route
            /\ acked' = MapPut(acked, e.preimage,
                               [to_id52 |-> sent[k], response |-> f.payload,
                                at |-> now, preloaded |-> FALSE])
            /\ admitted' = Retire(admitted, {x \in DOMAIN admitted : admitted[x] = k})
       ELSE UNCHANGED <<pending, response_cache, route, acked, admitted>>
    /\ UNCHANGED <<devices, next_msg_id, sess, rx, outbox, link, sent, loaded>>

\* The `other` arm of handle_frame: UPDATE_COMMITS, KEEPALIVE and every other type.
HandleOther(s, f, rest) ==
    /\ devices' = IF f.msg_type = "UPDATE_COMMITS" /\ sess[s].id52 # None
                  THEN ApplyUpdateCommits(devices, sess[s].id52, f.commits)
                  ELSE devices
    /\ inbox' = [inbox EXCEPT ![s] = rest]
    /\ UNCHANGED <<response_cache, pending, next_msg_id, sess, route, rx, outbox, link,
                   admitted, sent, acked, loaded>>

\* A frame whose payload from_bytes rejects, or whose length read_frame rejects:
\* the error ends Session::run.
HandleMalformed(s) ==
    /\ CloseSession(s)
    /\ UNCHANGED <<relayVars, outbox, link, admitted, sent, acked, loaded>>

\* Session::handle_frame on frame f; rest is what stays unread behind it.
HandleFrame(s, f, rest) ==
    /\ Reading(s)
    /\ CASE f.msg_type = "I_AM" -> HandleIAm(s, f, rest)
         [] f.msg_type = "SEND" -> HandleSend(s, f, rest)
         [] f.msg_type = "ACK" -> HandleAck(s, f, rest)
         [] f.msg_type \in {"MALFORMED", "OVERSIZE"} -> HandleMalformed(s)
         [] OTHER -> HandleOther(s, f, rest)

\* A router that hands out the counter's value without advancing it.
NextMsgId_Same(id) == id

\* route_message step 3: `*id += 1` on the u32 counter, below its limit.
NextMsgId(id) == id + 1

\* route_message steps 3 and 4a.  Under the devices lock: recipient lookup, commit
\* check and removal, msg_id allocation, clone of the recipient's channel sender.
\* Then pending.insert(msg_id, (preimage, response_tx)): nothing can refer to the
\* new msg_id before it is inserted, so the insert is taken in the same step.
RouteValidate(s) ==
    LET r == route[s]
        st == ValidateStatus(devices, r.to_id52, r.preimage) IN
    /\ sess[s].status = "open" /\ r.pc = "validate"
    /\ IF st # SEND_OK
       THEN /\ route' = [route EXCEPT ![s].pc = "reply", ![s].status = st,
                                      ![s].response = EmptyPayload]
            /\ UNCHANGED <<devices, next_msg_id, pending, admitted, sent>>
       ELSE /\ next_msg_id <= MaxMsgId
            /\ devices' = ConsumeCommit(devices, r.to_id52, sha256(r.preimage))
            /\ next_msg_id' = NextMsgId(next_msg_id)
            /\ pending' = MapPut(pending, next_msg_id, [preimage |-> r.preimage, tx |-> s])
            /\ route' = [route EXCEPT ![s].pc = "enqueue", ![s].msg_id = next_msg_id,
                                      ![s].sender = devices[r.to_id52].sender]
            /\ admitted' = MapPut(admitted, <<r.to_id52, r.preimage>>, next_msg_id)
            /\ sent' = MapPut(sent, next_msg_id, r.to_id52)
    /\ UNCHANGED <<response_cache, sess, rx, inbox, outbox, link, now, acked, frames,
                   loaded, nodeVars>>

\* A router that leaves the pending entry behind when the enqueue fails.
RemovePending_Kept(pend, m) == pend

\* route_message step 4b, the failure branch: pending.remove(&msg_id)
RemovePending(pend, m) == MapDel(pend, m)

\* route_message step 4b: sender.send(delivery).  It fails when the
\* recipient session has dropped rx, and waits while the queue is full.
RouteEnqueue(s) ==
    LET r == route[s] IN
    /\ sess[s].status = "open" /\ r.pc = "enqueue"
    /\ IF sess[r.sender].status # "open"
       THEN /\ pending' = RemovePending(pending, r.msg_id)
            /\ route' = [route EXCEPT ![s].pc = "reply",
                                      ![s].status = SEND_ERR_DISCONNECTED,
                                      ![s].response = EmptyPayload]
            /\ rx' = rx
       ELSE /\ Len(rx[r.sender]) < ChannelDepth
            /\ rx' = [rx EXCEPT ![r.sender] =
                        Append(@, [msg_id |-> r.msg_id, preimage |-> r.preimage,
                                   payload |-> r.payload])]
            /\ route' = [route EXCEPT ![s].pc = "wait",
                                      ![s].deadline = now + SendTimeoutSecs]
            /\ pending' = pending
    /\ UNCHANGED <<devices, response_cache, next_msg_id, sess, inbox, outbox, link, now,
                   histVars, nodeVars>>

\* route_message step 5: the response arrived on the oneshot channel.
RouteResponse(s) ==
    /\ sess[s].status = "open" /\ route[s].pc = "wait" /\ route[s].got
    /\ route' = [route EXCEPT ![s].pc = "reply", ![s].status = SEND_OK]
    /\ UNCHANGED <<relayVars, sess, rx, inbox, outbox, link, now, histVars, nodeVars>>

\* A wait that gives up without looking at the clock.
RouteTimeout_Early(s) ==
    /\ sess[s].status = "open" /\ route[s].pc = "wait" /\ ~route[s].got
    /\ route' = [route EXCEPT ![s].pc = "reply", ![s].status = SEND_ERR_TIMEOUT,
                              ![s].response = EmptyPayload]
    /\ UNCHANGED <<relayVars, sess, rx, inbox, outbox, link, now, histVars, nodeVars>>

\* route_message step 5: the 30 second deadline passed with no response.
RouteTimeout(s) ==
    /\ sess[s].status = "open" /\ route[s].pc = "wait" /\ ~route[s].got
    /\ now >= route[s].deadline
    /\ route' = [route EXCEPT ![s].pc = "reply", ![s].status = SEND_ERR_TIMEOUT,
                              ![s].response = EmptyPayload]
    /\ UNCHANGED <<relayVars, sess, rx, inbox, outbox, link, now, histVars, nodeVars>>

\* Session::handle_send after route_message returned: write SEND_RESULT.
SessionReply(s) ==
    /\ sess[s].status = "open" /\ route[s].pc = "reply"
    /\ IF link[s] # "down"
       THEN /\ CanWrite(s)
            /\ outbox' = Written(s, SendResultFrame(route[s].status, route[s].response))
            /\ route' = [route EXCEPT ![s] = IdleRoute]
            /\ UNCHANGED <<sess, rx, inbox>>
       ELSE /\ CloseSession(s)
            /\ outbox' = outbox
    /\ UNCHANGED <<relayVars, link, now, histVars, nodeVars>>

\* Session::send_delivery: the select arm that drains rx and writes DELIVER.
SessionDeliver(s) ==
    /\ Reading(s) /\ rx[s] # <<>>
    /\ IF link[s] # "down"
       THEN /\ CanWrite(s)
            /\ outbox' = Written(s, DeliverFrame(Head(rx[s]).msg_id, Head(rx[s]).preimage,
                                                 Head(rx[s]).payload))
            /\ rx' = [rx EXCEPT ![s] = Tail(@)]
            /\ UNCHANGED <<sess, route, inbox>>
       ELSE /\ CloseSession(s)
            /\ outbox' = outbox
    /\ UNCHANGED <<relayVars, link, now, histVars, nodeVars>>

\* read_frame returns EOF: the client closed the connection.
SessionEof(s) ==
    /\ Reading(s) /\ link[s] = "down" /\ inbox[s] = <<>>
    /\ CloseSession(s)
    /\ UNCHANGED <<relayVars, outbox, link, now, histVars, nodeVars>>

\* Server::run accepts a connection from a client of kind k and Session::run writes
\* HELLO, which the client reads before it writes anything: nothing else happens on
\* a connection before that, so the HELLO is written and read within this step.
Accept(s, k) ==
    /\ sess[s].status = "new"
    /\ \A t \in Sessions : t < s => sess[t].status # "new"
    /\ sess' = [sess EXCEPT ![s].status = "open"]
    /\ link' = [link EXCEPT ![s] = k]
    /\ UNCHANGED <<relayVars, route, rx, outbox, histVars>>

\* Time passes.
Tick ==
    /\ now + TickSecs <= MaxTime
    /\ now' = now + TickSecs
    /\ UNCHANGED <<relayVars, sessVars, histVars, nodeVars>>

\* ---------------------------------------------------------- arbitrary clients
\* The client of a connection holds one secret key: it can sign an I_AM for the
\* identifier of that key only.  Connections 1, 3, ... come from the holder of A's
\* key, connections 2, 4, ... from the holder of B's.
KeyOf(s) == IF s % 2 = 1 THEN "A" ELSE "B"
ClientRecents == <<[preimage |-> 1, response |-> Raw("r0")]>>
ClientFrames(s) ==
    {IAmFrame(KeyOf(s), TRUE, cs, <<>>) : cs \in {{}, Commits}}
    \cup {IAmFrame(KeyOf(s), TRUE, {}, ClientRecents), IAmFrame(KeyOf(s), FALSE, {}, <<>>)}
    \cup {MalformedFrame, UnknownFrame, OversizeFrame}
    \cup {SendFrame(to, p, pl) : to \in Ids, p \in Preimages, pl \in ClientPayloads}
    \cup {AckFrame(m, pl) : m \in AckIds, pl \in ClientResponses}
    \cup {UpdateCommitsFrame(Commits)}

\* The client writes a frame and the session reads it.
ClientFrame(s) ==
    /\ frames < MaxFrames /\ link[s] = "sink"
    /\ frames' = frames + 1
    /\ \E f \in ClientFrames(s) : HandleFrame(s, f, <<>>)
    /\ UNCHANGED <<now, nodeVars>>

\* An arbitrary client connects.
ClientConnect(s) ==
    /\ s <= MaxClients
    /\ Accept(s, "sink")
    /\ UNCHANGED <<inbox, now, nodeVars>>

\* The client closes its end of the connection.
ClientClose(s) ==
    /\ sess[s].status = "open" /\ link[s] = "sink"
    /\ link' = [link EXCEPT ![s] = "down"]
    /\ UNCHANGED <<relayVars, sess, route, rx, inbox, outbox, now, histVars, nodeVars>>

RelayStep(s) ==
    \/ RouteValidate(s)
    \/ RouteEnqueue(s)
    \/ RouteResponse(s)
    \/ RouteTimeout(s)
    \/ SessionReply(s)
    \/ SessionDeliver(s)
    \/ SessionEof(s)

Next ==
    \/ \E s \in Sessions : ClientConnect(s)
    \/ \E s \in Sessions : ClientFrame(s)
    \/ \E s \in Sessions : ClientClose(s)
    \/ \E s \in Sessions : RelayStep(s)
    \/ Tick

Spec == Init /\ [][Next]_vars

\* Router::cleanup_cache called by a periodic task of the relay.
CleanupCache ==
    /\ response_cache' = cleanup_cache(response_cache, now)
    /\ UNCHANGED <<devices, pending, next_msg_id, sessVars, now, histVars, nodeVars>>

SweepNext ==
    \/ \E s \in Sessions : ClientConnect(s)
    \/ \E s \in Sessions : ClientFrame(s)
    \/ \E s \in Sessions : ClientClose(s)
    \/ \E s \in Sessions : RelayStep(s)
    \/ Tick
    \/ CleanupCache

SweepSpec == Init /\ [][SweepNext]_vars

\* -------------------------------------------------------- endpoint payloads
DEV_HANDSHAKE_INIT == 1
HANDSHAKE_ACCEPTED == 0
HANDSHAKE_REJECTED == 1
NoPreimage == 0          \* [0u8; 32], and None of Option<[u8; 32]>

DEV_MESSAGE == 16
Roles == {"owner", "writer", "reader"}
Libs == {"node", "device"}
\* The built-in commands of Node::dispatch_command and the commands the smart-switch
\* example registers with Node::command / Device::command.
Builtins == {"node/info", "invite/create", "invite/list", "invite/delete", "peers/list"}
SwitchCommands == {"status", "on", "off", "toggle"}
Commands == Builtins \cup SwitchCommands

\* HandshakeInit::to_bytes: the first byte is DEV_HANDSHAKE_INIT.
HandshakeInit(sender, p) ==
    [tag |-> "init", first_byte |-> DEV_HANDSHAKE_INIT, sender_id52 |-> sender,
     preimage_for_peer |-> p]
\* HandshakeComplete::to_bytes
HandshakeComplete(st, p) == [tag |-> "complete", status |-> st, preimage_for_peer |-> p]
\* serde_json::to_vec(&Request): JSON text, the first byte is an opening brace.
Request(cmd, id) == [tag |-> "request", first_byte |-> 123, cmd |-> cmd, id |-> id]
\* serde_json::to_vec(&Response), then extend_from_slice(&new_preimage) when the
\* preimage was renewed: next is the 32 bytes after the JSON text, NoPreimage if none.
Response(ok, text, tok, nxt) ==
    [tag |-> "response", ok |-> ok, text |-> text, token |-> tok, next |-> nxt]

\* DeviceMessage::to_bytes: the first byte is DEV_MESSAGE.
DeviceMessage(text) == [tag |-> "message", first_byte |-> DEV_MESSAGE, content |-> text]
\* DeviceMessageResponse::to_bytes
DeviceMessageResponse(st, nxt) == [tag |-> "message_response", status |-> st, next |-> nxt]

\* parse_device_msg_type: the first byte of the payload.
parse_device_msg_type(pl) ==
    IF pl.tag \in {"init", "request", "message"} THEN pl.first_byte ELSE 0

\* Node::send / Device::send_command: split the SEND_RESULT payload into the JSON
\* response and the appended preimage.  Node::send takes the last 32 bytes when the
\* whole payload is not JSON; Device::send_command takes them when the payload
\* without them is JSON, and ignores 32 zero bytes: on a response with or without an
\* appended preimage the two agree.  A payload that is no JSON response at all
\* makes both return an error before any update.
SplitResponse(pl) ==
    IF pl.tag # "response" THEN [parsed |-> FALSE, ok |-> FALSE, next |-> NoPreimage]
    ELSE [parsed |-> TRUE, ok |-> pl.ok, next |-> pl.next]

\* ----------------------------------------------------------- DeviceState
Range(q) == {q[i] : i \in DOMAIN q}

\* DeviceState::create_invite with random_bytes() = p
create_invite(st, p, role) == [st EXCEPT !.invites = MapPut(@, p, role)]

\* DeviceState::accept_invite with random_bytes() = mine
accept_invite(st, their_id52, their_preimage, mine) ==
    [st EXCEPT !.pending_peers =
        MapPut(@, their_id52, [their_preimage |-> their_preimage, my_preimage |-> mine])]

\* A complete_handshake_as_inviter that records the peer as a reader when it finds
\* no invite, and still returns None.
complete_handshake_as_inviter_Lax(st, preimage, peer_id52, peer_preimage, fresh) ==
    IF preimage \notin DOMAIN st.invites
    THEN [some |-> FALSE,
          st |-> [st EXCEPT !.peers = MapPut(@, peer_id52,
                                [role |-> "reader", issued_preimages |-> <<fresh>>,
                                 their_preimage |-> peer_preimage])]]
    ELSE [some |-> TRUE,
          st |-> [st EXCEPT !.invites = MapDel(@, preimage),
                            !.peers = MapPut(@, peer_id52,
                                [role |-> st.invites[preimage],
                                 issued_preimages |-> <<fresh>>,
                                 their_preimage |-> peer_preimage])]]

\* A complete_handshake_as_inviter that makes every new peer an owner.
complete_handshake_as_inviter_Owner(st, preimage, peer_id52, peer_preimage, fresh) ==
    IF preimage \notin DOMAIN st.invites THEN [some |-> FALSE, st |-> st]
    ELSE [some |-> TRUE,
          st |-> [st EXCEPT !.invites = MapDel(@, preimage),
                            !.peers = MapPut(@, peer_id52,
                                [role |-> "owner",
                                 issued_preimages |-> <<fresh>>,
                                 their_preimage |-> peer_preimage])]]

\* DeviceState::complete_handshake_as_inviter with random_bytes() = fresh: the state
\* it leaves, and whether it returned Some.
complete_handshake_as_inviter(st, preimage, peer_id52, peer_preimage, fresh) ==
    IF preimage \notin DOMAIN st.invites THEN [some |-> FALSE, st |-> st]
    ELSE [some |-> TRUE,
          st |-> [st EXCEPT !.invites = MapDel(@, preimage),
                            !.peers = MapPut(@, peer_id52,
                                [role |-> st.invites[preimage],
                                 issued_preimages |-> <<fresh>>,
                                 their_preimage |-> peer_preimage])]]

\* DeviceState::complete_handshake_as_acceptor
complete_handshake_as_acceptor(st, peer_id52, peer_preimage) ==
    IF peer_id52 \notin DOMAIN st.pending_peers THEN st
    ELSE [st EXCEPT !.pending_peers = MapDel(@, peer_id52),
                    !.peers = MapPut(@, peer_id52,
                        [role |-> "reader",
                         issued_preimages |-> <<st.pending_peers[peer_id52].my_preimage>>,
                         their_preimage |-> peer_preimage])]

\* DeviceState::get_all_commits
get_all_commits(st) ==
    {sha256(p) : p \in DOMAIN st.invites}
    \cup {sha256(st.pending_peers[i].my_preimage) : i \in DOMAIN st.pending_peers}
    \cup UNION {{sha256(p) : p \in Range(st.peers[i].issued_preimages)} : i \in DOMAIN st.peers}

\* DeviceState::lookup_preimage: invites first, then the issued preimages of peers.
lookup_preimage(st, p) ==
    IF p \in DOMAIN st.invites THEN [kind |-> "invite", id52 |-> None]
    ELSE IF \E i \in DOMAIN st.peers : p \in Range(st.peers[i].issued_preimages)
    THEN [kind |-> "peer",
          id52 |-> CHOOSE i \in DOMAIN st.peers : p \in Range(st.peers[i].issued_preimages)]
    ELSE [kind |-> "none", id52 |-> None]

\* A consume_and_renew_preimage that issues the new preimage and keeps the old one.
consume_and_renew_preimage_Kept(st, peer_id52, old, fresh) ==
    IF peer_id52 \notin DOMAIN st.peers THEN st
    ELSE [st EXCEPT !.peers[peer_id52].issued_preimages = Append(@, fresh)]

\* DeviceState::consume_and_renew_preimage with random_bytes() = fresh
consume_and_renew_preimage(st, peer_id52, old, fresh) ==
    IF peer_id52 \notin DOMAIN st.peers THEN st
    ELSE [st EXCEPT !.peers[peer_id52].issued_preimages =
              Append(SelectSeq(@, LAMBDA q : q # old), fresh)]

\* DeviceState::get_peer_preimage
get_peer_preimage(st, peer_id52) ==
    IF peer_id52 \in DOMAIN st.peers THEN st.peers[peer_id52].their_preimage ELSE NoPreimage

\* An update_peer_preimage that keeps the preimage it has.
update_peer_preimage_Kept(st, peer_id52, p) == st

\* DeviceState::update_peer_preimage
update_peer_preimage(st, peer_id52, p) ==
    IF peer_id52 \in DOMAIN st.peers
    THEN [st EXCEPT !.peers[peer_id52].their_preimage = p] ELSE st

\* DeviceState::find_peer_by_alias: an endpoint names a peer by an alias of its own;
\* the alias it gives at pair() is the peer's identifier.
find_peer_by_alias(st, alias) == alias \in DOMAIN st.peers

\* create_invite_token / parse_invite_token: identifier and preimage, encoded and back.
InviteToken(id, p) == [id52 |-> id, preimage |-> p]

\* ------------------------------------------- DeviceState of the ESP32 firmware
\* StoredState::default(), with the LED key of the NVS: invites and peers are
\* vectors of (key, record) pairs.
StoredDefault == [invites |-> <<>>, peers |-> <<>>, led |-> FALSE]

\* Vec::remove(i)
RemoveAt(q, i) == SubSeq(q, 1, i - 1) \o SubSeq(q, i + 1, Len(q))

\* Iterator::position: the first of the indices whose element satisfies the
\* test, 0 for None.
Position(hits) ==
    IF hits = {} THEN 0 ELSE CHOOSE i \in hits : \A j \in hits : i <= j

\* bhumi-esp32 DeviceState::get_commits
get_commits(st) ==
    {sha256(st.invites[i].preimage) : i \in DOMAIN st.invites}
    \cup {sha256(st.peers[i].their_preimage) : i \in DOMAIN st.peers}

\* bhumi-esp32 DeviceState::create_owner_invite with rand::random() = p
create_owner_invite(st, p) ==
    [st EXCEPT !.invites = Append(@, [preimage |-> p, role |-> "owner"])]

\* A firmware that prints a fresh invite whenever it has none left.
NeedsInvite_Eager(st) == Len(st.invites) = 0

\* bhumi-esp32 main: the firmware creates its invite when it has no peer and no
\* invite.
NeedsInvite(st) == Len(st.peers) = 0 /\ Len(st.invites) = 0

\* bhumi-esp32 DeviceState::handle_handshake with rand::random() = fresh: the state
\* it leaves, and whether it returned Some.
esp32_handle_handshake(st, preimage, init, fresh) ==
    LET i == Position({k \in DOMAIN st.invites :
                          sha256(st.invites[k].preimage) = sha256(preimage)}) IN
    IF i = 0 THEN [some |-> FALSE, st |-> st]
    ELSE [some |-> TRUE,
          st |-> [st EXCEPT !.invites = RemoveAt(@, i),
                            !.peers = Append(@, [id52 |-> init.sender_id52,
                                                 role |-> st.invites[i].role,
                                                 their_preimage |-> fresh,
                                                 our_preimage |-> init.preimage_for_peer])]]

\* bhumi-esp32 DeviceState::lookup_preimage: the index of the first peer reached by
\* the preimage, 0 for None.
esp32_lookup_preimage(st, p) ==
    Position({k \in DOMAIN st.peers : sha256(st.peers[k].their_preimage) = sha256(p)})

\* bhumi-esp32 DeviceState::renew_preimage with rand::random() = fresh
renew_preimage(st, peer_id52, old, fresh) ==
    LET i == Position({k \in DOMAIN st.peers :
                          /\ st.peers[k].id52 = peer_id52
                          /\ sha256(st.peers[k].their_preimage) = sha256(old)}) IN
    IF i = 0 THEN [some |-> FALSE, st |-> st]
    ELSE [some |-> TRUE, st |-> [st EXCEPT !.peers[i].their_preimage = fresh]]

\* ---------------------------------------------------------------- endpoints
\* Session::run reads the next frame of the connection.
SessionRead(s) ==
    /\ inbox[s] # <<>>
    /\ HandleFrame(s, Head(inbox[s]), Tail(inbox[s]))
    /\ UNCHANGED <<now, frames, nodeVars>>

\* The relay has nothing to do until an endpoint acts or time passes.  A step of an
\* endpoint (an operator's call, a network round trip, a write to state.json) is
\* slow against a step of the relay: in NodeSpec the relay finishes the work it
\* has before an endpoint takes its next step.  The sessions still interleave with
\* each other, and Spec puts no such order on the relay.
Busy(s) ==
    /\ sess[s].status = "open"
    /\ CASE route[s].pc = "idle" ->
                inbox[s] # <<>> \/ link[s] = "down" \/ (rx[s] # <<>> /\ CanWrite(s))
         [] route[s].pc = "validate" ->
                ValidateStatus(devices, route[s].to_id52, route[s].preimage) # SEND_OK
                \/ next_msg_id <= MaxMsgId
         [] route[s].pc = "enqueue" ->
                sess[route[s].sender].status # "open"
                \/ Len(rx[route[s].sender]) < ChannelDepth
         [] route[s].pc = "wait" -> route[s].got \/ now >= route[s].deadline
         [] route[s].pc = "reply" -> link[s] = "down" \/ CanWrite(s)
Quiet == \A s \in Sessions : ~Busy(s)

\* The connection the server accepts next.
Unused == {s \in Sessions : sess[s].status = "new"
                            /\ (s = 1 \/ sess[s - 1].status # "new")}

\* A runs Node::run and serves; B calls pair() and send().
Servers == {"A"}
Callers == {"B"}
\* The pc of an endpoint that is between two operations; the pc tells how the last
\* operation ended.
Rest == {"off", "pair_ok", "pair_err", "send_ok", "send_err"}

\* self.save() after a mutation of self.state: memory and state.json change together,
\* there is no await between the two.
Saved(e, st) ==
    /\ state' = [state EXCEPT ![e] = st]
    /\ disk' = [disk EXCEPT ![e] = st]

\* Connection::connect on connection s, followed by the frames the caller writes
\* before it reads anything.
Connect(e, s, commits, more) ==
    /\ Accept(s, "up")
    /\ inbox' = [inbox EXCEPT ![s] = <<IAmFrame(e, TRUE, commits, <<>>)>> \o more]

\* Node::create_invite, called by the operator in the initial setup, before the
\* endpoint runs for the first time.
CreateInvite(e, role) ==
    /\ e \in Servers /\ ep[e].pc = "off" /\ ep[e].conn = 0
    /\ Quiet
    /\ rng <= MaxRandom /\ Cardinality(tokens) < MaxInvites
    /\ Saved(e, create_invite(state[e], rng, role))
    /\ rng' = rng + 1
    /\ tokens' = tokens \cup {InviteToken(e, rng)}
    /\ UNCHANGED <<relayVars, sessVars, now, histVars, ep, renewed, codec>>

\* Node::run up to the loop: connect with the commits of the state.
\* The firmware of the ESP32 first creates its owner invite if it needs one (main)
\* and then connects with get_commits (run_connection); once the invite exists the
\* check of main finds nothing to do, at a reboot as at a reconnection.
RunStart(e) ==
    /\ e \in Servers /\ ep[e].pc = "off"
    /\ Quiet
    /\ IF ep[e].lib = "esp32"
       THEN LET create == NeedsInvite(state[e])
                st == IF create THEN create_owner_invite(state[e], rng) ELSE state[e] IN
            /\ create => rng <= MaxRandom
            /\ Saved(e, st)
            /\ rng' = IF create THEN rng + 1 ELSE rng
            /\ tokens' = IF create THEN tokens \cup {InviteToken(e, rng)} ELSE tokens
            /\ \E s \in Unused :
                  /\ Connect(e, s, get_commits(st), <<>>)
                  /\ ep' = [ep EXCEPT ![e].pc = "recv", ![e].conn = s]
       ELSE /\ \E s \in Unused :
                  /\ Connect(e, s, get_all_commits(state[e]), <<>>)
                  /\ ep' = [ep EXCEPT ![e].pc = "recv", ![e].conn = s]
            /\ UNCHANGED <<state, disk, rng, tokens>>
    /\ UNCHANGED <<now, renewed, codec>>

\* Node::handle_handshake up to the first write: the frames it will write are in todo.
handle_handshake(e, f) ==
    LET init == f.payload
        r == complete_handshake_as_inviter(state[e], f.preimage, init.sender_id52,
                                           init.preimage_for_peer, rng) IN
    IF r.some
    THEN /\ rng <= MaxRandom
         /\ Saved(e, r.st)
         /\ rng' = rng + 1
         /\ ep' = [ep EXCEPT ![e].todo =
                <<AckFrame(f.msg_id, HandshakeComplete(HANDSHAKE_ACCEPTED, rng)),
                  UpdateCommitsFrame({sha256(rng)})>>]
         /\ UNCHANGED <<tokens, renewed, codec>>
    ELSE /\ state' = [state EXCEPT ![e] = r.st]
         /\ ep' = [ep EXCEPT ![e].todo =
                <<AckFrame(f.msg_id, HandshakeComplete(HANDSHAKE_REJECTED, NoPreimage))>>]
         /\ UNCHANGED <<disk, rng, tokens, renewed, codec>>

\* A check of the caller's role that lets a writer pass.
OwnerOnly_Writer(role) == role # "reader"

\* ctx.role != PeerRole::Owner makes the built-in command return "permission denied".
OwnerOnly(role) == role = "owner"

\* The handlers the smart-switch example registers: the switch after the command
\* ran.  None of them looks at the role of the caller.
SwitchHandler(cmd, is_on) ==
    CASE cmd = "on" -> TRUE
      [] cmd = "off" -> FALSE
      [] cmd = "toggle" -> ~is_on
      [] OTHER -> is_on

\* Node::dispatch_command / Device::dispatch_command for a peer of the given role,
\* with random_bytes() = fresh if it draws: the new state, the response, the invite
\* token it created if any, and the switch.  Device has no node/info and no
\* peers/list: there the two names fall to the custom handlers.
dispatch_command(st, e, role, req, fresh) ==
    LET on == ep[e].is_on
        node == ep[e].lib = "node"
        denied == [st |-> st, ok |-> FALSE, text |-> "permission denied: owner only",
                   token |-> NoPreimage, is_on |-> on] IN
    CASE req.cmd = "node/info" /\ node ->
            [st |-> st, ok |-> TRUE, text |-> "info", token |-> NoPreimage, is_on |-> on]
      [] req.cmd = "invite/create" ->
            IF ~OwnerOnly(role) THEN denied
            ELSE [st |-> create_invite(st, fresh, "reader"), ok |-> TRUE, text |-> "token",
                  token |-> fresh, is_on |-> on]
      [] req.cmd = "invite/list" ->
            IF ~OwnerOnly(role) THEN denied
            ELSE [st |-> st, ok |-> TRUE, text |-> "invites", token |-> NoPreimage,
                  is_on |-> on]
      [] req.cmd = "invite/delete" ->
            IF ~OwnerOnly(role) THEN denied
            ELSE IF req.id \in DOMAIN st.invites
            THEN [st |-> [st EXCEPT !.invites = MapDel(@, req.id)], ok |-> TRUE,
                  text |-> "deleted", token |-> NoPreimage, is_on |-> on]
            ELSE [st |-> st, ok |-> FALSE, text |-> "invite not found",
                  token |-> NoPreimage, is_on |-> on]
      [] req.cmd = "peers/list" /\ node ->
            IF ~OwnerOnly(role) THEN denied
            ELSE [st |-> st, ok |-> TRUE, text |-> "peers", token |-> NoPreimage,
                  is_on |-> on]
      [] OTHER ->
            IF req.cmd \in ep[e].handlers
            THEN [st |-> st, ok |-> TRUE, text |-> "is_on", token |-> NoPreimage,
                  is_on |-> SwitchHandler(req.cmd, on)]
            ELSE [st |-> st, ok |-> FALSE, text |-> "unknown command",
                  token |-> NoPreimage, is_on |-> on]

\* Node::handle_command up to the first write.
handle_command(e, f) ==
    LET who == lookup_preimage(state[e], f.preimage) IN
    IF who.kind # "peer"
    THEN /\ ep' = [ep EXCEPT ![e].todo =
                <<AckFrame(f.msg_id, Response(FALSE, "unauthorized", NoPreimage, NoPreimage))>>]
         /\ UNCHANGED <<state, disk, rng, tokens, renewed, codec>>
    ELSE LET role == state[e].peers[who.id52].role
             d == IF f.payload.tag = "request"
                  THEN dispatch_command(state[e], e, role, f.payload, rng)
                  ELSE [st |-> state[e], ok |-> FALSE, text |-> "invalid request",
                        token |-> NoPreimage, is_on |-> ep[e].is_on]
             fresh == IF d.token # NoPreimage THEN rng + 1 ELSE rng
         IN /\ fresh <= MaxRandom
            /\ Saved(e, consume_and_renew_preimage(d.st, who.id52, f.preimage, fresh))
            /\ rng' = fresh + 1
            /\ tokens' = IF d.token # NoPreimage
                         THEN tokens \cup {InviteToken(e, d.token)} ELSE tokens
            /\ renewed' = MapPut(renewed, f.preimage, [next |-> fresh, peer |-> who.id52])
            /\ UNCHANGED codec
            /\ ep' = [ep EXCEPT ![e].is_on = d.is_on, ![e].todo =
                   <<UpdateCommitsFrame({sha256(fresh)}),
                     AckFrame(f.msg_id, Response(d.ok, d.text, d.token, fresh))>>]

\* state.save(&state_path()) of cmd_listen, which follows the handler: a step of
\* the handler that writes state.json and no frame.
SaveStep == [msg_type |-> "SAVE"]

\* bhumi-device main.rs, handle_handshake_init up to the first write: the state
\* changes in memory, the frames follow, cmd_listen saves after them.
handle_handshake_init(e, f) ==
    LET init == f.payload
        r == complete_handshake_as_inviter(state[e], f.preimage, init.sender_id52,
                                           init.preimage_for_peer, rng) IN
    IF r.some
    THEN /\ rng <= MaxRandom
         /\ state' = [state EXCEPT ![e] = r.st]
         /\ rng' = rng + 1
         /\ ep' = [ep EXCEPT ![e].todo =
                <<AckFrame(f.msg_id, HandshakeComplete(HANDSHAKE_ACCEPTED, rng)),
                  UpdateCommitsFrame({sha256(rng)}), SaveStep>>]
         /\ UNCHANGED <<disk, tokens, renewed, codec>>
    ELSE /\ state' = [state EXCEPT ![e] = r.st]
         /\ ep' = [ep EXCEPT ![e].todo =
                <<AckFrame(f.msg_id, HandshakeComplete(HANDSHAKE_REJECTED, NoPreimage)),
                  SaveStep>>]
         /\ UNCHANGED <<disk, rng, tokens, renewed, codec>>

\* bhumi-device main.rs, handle_message up to the first write.
handle_message(e, f) ==
    LET who == lookup_preimage(state[e], f.preimage) IN
    IF who.kind = "peer"
    THEN /\ rng <= MaxRandom
         /\ state' = [state EXCEPT ![e] =
                consume_and_renew_preimage(state[e], who.id52, f.preimage, rng)]
         /\ rng' = rng + 1
         /\ renewed' = MapPut(renewed, f.preimage, [next |-> rng, peer |-> who.id52])
         /\ UNCHANGED codec
         /\ ep' = [ep EXCEPT ![e].todo =
                <<AckFrame(f.msg_id, DeviceMessageResponse(0, rng)),
                  UpdateCommitsFrame({sha256(rng)}), SaveStep>>]
         /\ UNCHANGED <<disk, tokens>>
    ELSE /\ ep' = [ep EXCEPT ![e].todo =
                <<AckFrame(f.msg_id, DeviceMessageResponse(0, NoPreimage)), SaveStep>>]
         /\ UNCHANGED <<state, disk, rng, tokens, renewed, codec>>

\* bhumi-device main.rs, cmd_listen: one turn of its loop up to the first write.
cmd_listen(e, f) ==
    CASE parse_device_msg_type(f.payload) = DEV_HANDSHAKE_INIT -> handle_handshake_init(e, f)
      [] parse_device_msg_type(f.payload) = DEV_MESSAGE -> handle_message(e, f)
      [] OTHER -> /\ ep' = [ep EXCEPT ![e].todo = <<AckFrame(f.msg_id, EmptyPayload)>>]
                  /\ UNCHANGED <<state, disk, rng, tokens, renewed, codec>>

\* bhumi-esp32 switch.rs dispatch_command: the response and the switch after it.
switch_dispatch_command(role, req, on) ==
    LET denied == [ok |-> FALSE, text |-> "permission denied: writer or owner only",
                   is_on |-> on] IN
    CASE req.cmd = "node/info" -> [ok |-> TRUE, text |-> "info", is_on |-> on]
      [] req.cmd = "status" -> [ok |-> TRUE, text |-> "is_on", is_on |-> on]
      [] req.cmd \in {"on", "off", "toggle"} ->
            IF role = "reader" THEN denied
            ELSE [ok |-> TRUE, text |-> "is_on", is_on |-> SwitchHandler(req.cmd, on)]
      [] OTHER -> [ok |-> FALSE, text |-> "unknown command", is_on |-> on]

\* bhumi-esp32 switch.rs handle_command, then the frames run_connection writes.
switch_handle_command(e, f) ==
    LET st == state[e]
        i == esp32_lookup_preimage(st, f.preimage) IN
    IF i = 0 \/ f.payload.tag # "request"
    THEN /\ ep' = [ep EXCEPT ![e].todo =
                <<AckFrame(f.msg_id,
                           Response(FALSE, IF i = 0 THEN "unauthorized" ELSE "invalid request",
                                    NoPreimage, NoPreimage))>>]
         /\ UNCHANGED <<state, disk, rng, tokens, renewed, codec>>
    ELSE LET d == switch_dispatch_command(st.peers[i].role, f.payload, ep[e].is_on)
             st1 == IF f.payload.cmd \in {"on", "off", "toggle"} /\ d.ok
                    THEN [st EXCEPT !.led = d.is_on] ELSE st
             r == renew_preimage(st1, st.peers[i].id52, f.preimage, rng) IN
         /\ rng <= MaxRandom
         /\ Saved(e, r.st)
         /\ rng' = rng + 1
         /\ renewed' = MapPut(renewed, f.preimage, [next |-> rng, peer |-> st.peers[i].id52])
         /\ UNCHANGED codec
         /\ ep' = [ep EXCEPT ![e].is_on = d.is_on, ![e].todo =
                <<UpdateCommitsFrame({sha256(rng)}),
                  AckFrame(f.msg_id, Response(d.ok, d.text, NoPreimage, rng))>>]
         /\ UNCHANGED tokens

\* bhumi-esp32 main.rs run_connection, one turn of its loop up to the first write.
run_connection(e, f) ==
    IF parse_device_msg_type(f.payload) = DEV_HANDSHAKE_INIT
    THEN LET r == esp32_handle_handshake(state[e], f.preimage, f.payload, rng) IN
         IF r.some
         THEN /\ rng <= MaxRandom
              /\ Saved(e, r.st)
              /\ rng' = rng + 1
              /\ ep' = [ep EXCEPT ![e].todo =
                     <<AckFrame(f.msg_id, HandshakeComplete(HANDSHAKE_ACCEPTED, rng)),
                       UpdateCommitsFrame({sha256(rng)})>>]
              /\ UNCHANGED <<tokens, renewed, codec>>
         ELSE /\ ep' = [ep EXCEPT ![e].todo =
                     <<AckFrame(f.msg_id, HandshakeComplete(HANDSHAKE_REJECTED, NoPreimage))>>]
              /\ UNCHANGED <<state, disk, rng, tokens, renewed, codec>>
    ELSE switch_handle_command(e, f)

\* Node::run, one turn of the loop: conn.receive() returns a DELIVER and the handler
\* runs up to its first write.
Receive(e) ==
    LET s == ep[e].conn
        f == Head(outbox[s]) IN
    /\ e \in Servers /\ ep[e].pc = "recv" /\ ep[e].todo = <<>>
    /\ Quiet
    /\ link[s] = "up" /\ outbox[s] # <<>> /\ f.msg_type = "DELIVER"
    /\ outbox' = [outbox EXCEPT ![s] = Tail(@)]
    /\ IF ep[e].lib = "cli" THEN cmd_listen(e, f)
       ELSE IF ep[e].lib = "esp32" THEN run_connection(e, f)
       ELSE IF parse_device_msg_type(f.payload) = DEV_HANDSHAKE_INIT
       THEN handle_handshake(e, f)
       ELSE handle_command(e, f)
    /\ UNCHANGED <<relayVars, sess, route, rx, inbox, link, now, histVars>>

\* History: the preimages of the deliveries that frame f answers with
\* HANDSHAKE_COMPLETE ACCEPTED: the preimage of the SEND admitted under its msg_id.
AcceptedBy(e, f) ==
    IF f.msg_type = "ACK" /\ f.payload.tag = "complete"
                          /\ f.payload.status = HANDSHAKE_ACCEPTED
    THEN {p \in 1..(rng - 1) : /\ <<e, p>> \in DOMAIN admitted
                               /\ admitted[<<e, p>>] = f.msg_id}
    ELSE {}

\* conn.send_ack / conn.update_commits: the handler writes its next frame.
Write(e) ==
    LET s == ep[e].conn IN
    /\ ep[e].todo # <<>> /\ link[s] = "up"
    /\ Head(ep[e].todo).msg_type # "SAVE"
    /\ Quiet
    /\ Len(inbox[s]) < MaxInbox
    /\ inbox' = [inbox EXCEPT ![s] = Append(@, Head(ep[e].todo))]
    /\ ep' = [ep EXCEPT ![e].todo = Tail(@),
                        ![e].accepted = @ \cup AcceptedBy(e, Head(ep[e].todo))]
    /\ UNCHANGED <<relayVars, sess, route, rx, outbox, link, now, histVars, state, disk,
                   rng, tokens, renewed, codec>>

\* cmd_listen reaches state.save after the frames of the handler are written.
Persist(e) ==
    /\ ep[e].todo # <<>> /\ Head(ep[e].todo).msg_type = "SAVE"
    /\ Quiet
    /\ disk' = [disk EXCEPT ![e] = state[e]]
    /\ ep' = [ep EXCEPT ![e].todo = Tail(@)]
    /\ UNCHANGED <<relayVars, sessVars, now, histVars, state, rng, tokens, renewed, codec>>

\* The connection of a serving endpoint ends between two deliveries: the process is
\* stopped or the network fails, and Node::run returns.
Stop(e) ==
    /\ e \in Servers /\ ep[e].pc = "recv" /\ ep[e].todo = <<>>
    /\ Quiet
    /\ link' = [link EXCEPT ![ep[e].conn] = "down"]
    /\ ep' = [ep EXCEPT ![e].pc = "off"]
    /\ UNCHANGED <<relayVars, sess, route, rx, inbox, outbox, now, histVars, state, disk,
                   rng, tokens, renewed, codec>>

\* Node::pair / Device::pair up to the wait for SEND_RESULT.  Node::pair registers
\* my_commit alone; Device::pair registers the commits of the state and my_commit.
PairStart(e) ==
    /\ e \in Callers /\ ep[e].pc \in Rest
    /\ Quiet
    /\ rng <= MaxRandom
    /\ \E tok \in tokens, s \in Unused :
          LET st1 == accept_invite(state[e], tok.id52, tok.preimage, rng)
              commits == IF ep[e].lib = "node" THEN {sha256(rng)}
                         ELSE get_all_commits(st1) \cup {sha256(rng)} IN
          /\ tok.id52 # e
          /\ Saved(e, st1)
          /\ Connect(e, s, commits,
                     <<SendFrame(tok.id52, tok.preimage, HandshakeInit(e, rng))>>)
          /\ ep' = [ep EXCEPT ![e].pc = "pair", ![e].conn = s, ![e].peer = tok.id52,
                              ![e].req = tok.preimage, ![e].mine = rng]
    /\ rng' = rng + 1
    /\ UNCHANGED <<now, tokens, renewed, codec>>

\* pair() with a token that parse_invite_token rejects.
PairBadToken(e) ==
    /\ e \in Callers /\ ep[e].pc \in Rest
    /\ Quiet
    /\ ep' = [ep EXCEPT ![e].pc = "pair_err", ![e].peer = None, ![e].req = NoPreimage,
                        ![e].mine = NoPreimage, ![e].how = "token"]
    /\ UNCHANGED <<relayVars, sessVars, now, histVars, state, disk, rng, tokens, renewed, codec>>

\* self.state.pending_peers.remove(&their_id52) of Device::pair; Node::pair has none.
DiscardPending(lib, st, their_id52) ==
    IF lib = "device" THEN [st EXCEPT !.pending_peers = MapDel(@, their_id52)] ELSE st

\* Node::pair / Device::pair from the SEND_RESULT to the return; the connection is
\* dropped on return.
PairResult(e) ==
    LET s == ep[e].conn
        f == Head(outbox[s])
        lib == ep[e].lib
        accepted == /\ f.status = SEND_OK /\ f.payload.tag = "complete"
                    /\ f.payload.status = HANDSHAKE_ACCEPTED
        undecoded == f.status = SEND_OK /\ f.payload.tag # "complete" IN
    /\ e \in Callers /\ ep[e].pc = "pair"
    /\ Quiet
    /\ link[s] = "up" /\ outbox[s] # <<>> /\ f.msg_type = "SEND_RESULT"
    /\ outbox' = [outbox EXCEPT ![s] = Tail(@)]
    /\ link' = [link EXCEPT ![s] = "down"]
    /\ Saved(e, IF accepted
                THEN complete_handshake_as_acceptor(state[e], ep[e].peer,
                                                    f.payload.preimage_for_peer)
                ELSE IF undecoded THEN state[e]
                ELSE DiscardPending(lib, state[e], ep[e].peer))
    /\ ep' = [ep EXCEPT ![e].pc = IF accepted THEN "pair_ok" ELSE "pair_err",
                        ![e].how = IF accepted THEN "ok"
                                   ELSE IF f.status # SEND_OK THEN "status"
                                   ELSE IF undecoded THEN "decode" ELSE "rejected"]
    /\ UNCHANGED <<relayVars, sess, route, rx, inbox, now, histVars, rng, tokens, renewed, codec>>

\* Node::send / Device::send_command up to the wait for SEND_RESULT.
SendStart(e, peer, cmd, id) ==
    /\ find_peer_by_alias(state[e], peer)
    /\ get_peer_preimage(state[e], peer) # NoPreimage
    /\ \E s \in Unused :
          /\ Connect(e, s, get_all_commits(state[e]),
                     <<SendFrame(peer, get_peer_preimage(state[e], peer),
                                 Request(cmd, id))>>)
          /\ ep' = [ep EXCEPT ![e].pc = "send", ![e].conn = s, ![e].peer = peer,
                              ![e].req = get_peer_preimage(state[e], peer),
                              ![e].mine = NoPreimage]
    /\ UNCHANGED <<now, state, disk, rng, tokens, renewed, codec>>

\* The caller sends one of the built-in commands; invite/delete names an invite by
\* the identifier its token shows.
SendCommand(e) ==
    /\ e \in Callers /\ ep[e].pc \in Rest
    /\ Quiet
    /\ \E peer \in DOMAIN state[e].peers :
          \/ SendStart(e, peer, "node/info", NoPreimage)
          \/ SendStart(e, peer, "invite/create", NoPreimage)
          \/ \E tok \in tokens : SendStart(e, peer, "invite/delete", tok.preimage)

\* A send that gives up the stored preimage when the attempt fails.
SendOutcome_Forgets(st, peer, status, r) ==
    IF status # SEND_OK THEN update_peer_preimage(st, peer, NoPreimage)
    ELSE IF r.parsed /\ r.next # NoPreimage THEN update_peer_preimage(st, peer, r.next)
    ELSE st

\* Node::send / Person::send_command: the state the call leaves.  A status other
\* than OK returns before anything is stored; a response with a new preimage
\* appended replaces their_preimage.
SendOutcome(st, peer, status, r) ==
    IF status = SEND_OK /\ r.parsed /\ r.next # NoPreimage
    THEN update_peer_preimage(st, peer, r.next)
    ELSE st

\* Node::send / Device::send_command from the SEND_RESULT to the return.
SendResult(e) ==
    LET s == ep[e].conn
        f == Head(outbox[s])
        r == SplitResponse(f.payload) IN
    /\ e \in Callers /\ ep[e].pc = "send"
    /\ Quiet
    /\ link[s] = "up" /\ outbox[s] # <<>> /\ f.msg_type = "SEND_RESULT"
    /\ outbox' = [outbox EXCEPT ![s] = Tail(@)]
    /\ link' = [link EXCEPT ![s] = "down"]
    /\ Saved(e, SendOutcome(state[e], ep[e].peer, f.status, r))
    /\ ep' = [ep EXCEPT ![e].pc = IF f.status = SEND_OK /\ r.parsed /\ r.ok
                                  THEN "send_ok" ELSE "send_err",
                        ![e].how = IF f.status # SEND_OK THEN "status"
                                   ELSE IF ~r.parsed THEN "decode"
                                   ELSE IF r.ok THEN "ok" ELSE "refused"]
    /\ UNCHANGED <<relayVars, sess, route, rx, inbox, now, histVars, rng, tokens, renewed, codec>>

\* The connection of a caller fails while it waits for SEND_RESULT: read_frame
\* returns an error and pair() / send() return it.
ConnLost(e) ==
    /\ e \in Callers /\ ep[e].pc \in {"pair", "send"}
    /\ Quiet
    /\ link' = [link EXCEPT ![ep[e].conn] = "down"]
    /\ ep' = [ep EXCEPT ![e].pc = IF ep[e].pc = "pair" THEN "pair_err" ELSE "send_err",
                        ![e].how = "io"]
    /\ UNCHANGED <<relayVars, sess, route, rx, inbox, outbox, now, histVars, state, disk,
                   rng, tokens, renewed, codec>>

\* Time passes while the relay waits.
Elapse == Quiet /\ Tick

NodeNext ==
    \/ \E e \in Ids : CreateInvite(e, IF tokens = {} THEN "owner" ELSE "reader")
    \/ \E e \in Ids : RunStart(e)
    \/ \E e \in Ids : Receive(e)
    \/ \E e \in Ids : Write(e)
    \/ \E e \in Ids : Stop(e)
    \/ \E e \in Ids : PairStart(e)
    \/ \E e \in Ids : PairBadToken(e)
    \/ \E e \in Ids : PairResult(e)
    \/ \E e \in Ids : SendCommand(e)
    \/ \E e \in Ids : SendResult(e)
    \/ \E e \in Ids : ConnLost(e)
    \/ \E s \in Sessions : SessionRead(s)
    \/ \E s \in Sessions : RelayStep(s)
    \/ Elapse

NodeSpec == NodeInit /\ [][NodeNext]_vars

\* ------------------------------------------------- one endpoint, any caller
\* The implementations of the serving loop: Node::run, Device::run, cmd_listen of
\* the bhumi-device command line, and run_connection of the ESP32 firmware.
Impls == {"node", "device", "cli", "esp32"}
MaxCalls == 2           \* SENDs the callers write in one run
MaxRuns == 2            \* times the serving endpoint connects in one run
\* The preimage the caller offers in its HANDSHAKE_INIT.
CallerPreimage == MaxRandom + 1
\* What a caller can put into a SEND: a handshake in the name of B, a request for
\* any command, a text message.
CallerPayloads ==
    {HandshakeInit("B", CallerPreimage), DeviceMessage("hi")}
    \cup {Request(c, NoPreimage) : c \in Commands \ {"invite/delete"}}
    \cup {Request("invite/delete", id) : id \in 1..MaxInvites}

\* The state of an endpoint whose operator created two invites (preimages 1 and 2,
\* the first for the given role, the second for an owner) and with which B paired
\* through the first: complete_handshake_as_inviter on the state create_invite left.
PairedState(role) ==
    complete_handshake_as_inviter(
        create_invite(create_invite(EmptyState, 1, role), 2, "owner"),
        1, "B", CallerPreimage, 3).st

\* The endpoint A is set up and paired with B, its process is not running, and the
\* relay has started afresh.  The library examples register the switch commands,
\* the command line has none.  The ESP32 firmware has no operator: it starts from
\* an empty NVS and sets itself up.
HandlerInit ==
    /\ InitRelay
    /\ \E role \in Roles, l \in Impls :
          LET st == IF l = "esp32" THEN StoredDefault ELSE PairedState(role) IN
          /\ state = [e \in Ids |-> IF e = "A" THEN st ELSE EmptyState]
          /\ disk = [e \in Ids |-> IF e = "A" THEN st ELSE EmptyState]
          /\ ep = [e \in Ids |->
                   IF e = "A"
                   THEN [IdleEndpoint(l) EXCEPT
                            !.handlers = IF l \in {"node", "device"}
                                         THEN SwitchCommands ELSE {},
                            !.accepted = IF l = "esp32" THEN {} ELSE {1}]
                   ELSE IdleEndpoint("node")]
          /\ tokens = IF l = "esp32" THEN {}
                      ELSE {InviteToken("A", 1), InviteToken("A", 2)}
          /\ rng = IF l = "esp32" THEN 1 ELSE 4
    /\ renewed = EmptyMap
    /\ codec = NoCodec

\* One caller at a time connects to the relay.
CallerConnect(s) ==
    /\ Quiet
    /\ \A t \in Sessions : link[t] # "sink"
    /\ ClientConnect(s)

\* Any client of the relay sends to A with a preimage it has seen or guesses.
CallerSend(s) ==
    /\ frames < MaxCalls /\ link[s] = "sink"
    /\ Quiet
    /\ frames' = frames + 1
    /\ \E p \in 1..(rng - 1), pl \in CallerPayloads :
          HandleFrame(s, SendFrame("A", p, pl), <<>>)
    /\ UNCHANGED <<now, nodeVars>>

\* The connections the endpoint has registered on so far.
Runs(e) == Cardinality({s \in Sessions : sess[s].id52 = e})

\* The serving endpoint is stopped and started again.
Restart(e) == Runs(e) < MaxRuns /\ Stop(e)

HandlerNext ==
    \/ \E e \in Ids : RunStart(e)
    \/ \E e \in Ids : Receive(e)
    \/ \E e \in Ids : Write(e)
    \/ \E e \in Ids : Persist(e)
    \/ \E e \in Ids : Restart(e)
    \/ \E s \in Sessions : CallerConnect(s)
    \/ \E s \in Sessions : CallerSend(s)
    \/ \E s \in Sessions : SessionRead(s)
    \/ \E s \in Sessions : RelayStep(s)
    \/ Elapse

HandlerSpec == HandlerInit /\ [][HandlerNext]_vars

\* conn.send_ack or conn.update_commits returns an error in the middle of a handler:
\* the `?` leaves the serving loop without writing the frames that remain, and the
\* next run starts from state.json (DeviceState::load).  The library loops and the
\* firmware have saved before their first write; cmd_listen saves after its last.
WriteFails(e) ==
    /\ e \in Servers /\ ep[e].pc = "recv" /\ ep[e].todo # <<>>
    /\ Head(ep[e].todo).msg_type # "SAVE"
    /\ Runs(e) < MaxRuns
    /\ Quiet
    /\ link' = [link EXCEPT ![ep[e].conn] = "down"]
    /\ ep' = [ep EXCEPT ![e].pc = "off", ![e].todo = <<>>]
    /\ state' = [state EXCEPT ![e] = disk[e]]
    /\ UNCHANGED <<relayVars, sess, route, rx, inbox, outbox, now, histVars, disk,
                   rng, tokens, renewed, codec>>

FaultNext ==
    \/ \E e \in Ids : RunStart(e)
    \/ \E e \in Ids : Receive(e)
    \/ \E e \in Ids : Write(e)
    \/ \E e \in Ids : Persist(e)
    \/ \E e \in Ids : Restart(e)
    \/ \E e \in Ids : WriteFails(e)
    \/ \E s \in Sessions : CallerConnect(s)
    \/ \E s \in Sessions : CallerSend(s)
    \/ \E s \in Sessions : SessionRead(s)
    \/ \E s \in Sessions : RelayStep(s)
    \/ Elapse

FaultSpec == HandlerInit /\ [][FaultNext]_vars

\* ------------------------------------------------------------- relay claims
\* Session s takes the step of route_message that decides admission.
Validates(s) == route[s].pc = "validate" /\ route'[s].pc # "validate"
\* Session s reads a SEND frame and route_message does its cache lookup.
LooksUp(s) == route[s].pc = "idle" /\ route'[s].pc \in {"reply", "validate"}
\* route_message of session s returned from the cache.
ServedFromCache(s) == route[s].pc = "reply" /\ route[s].msg_id = 0 /\ route[s].status = SEND_OK
\* A SEND was admitted for (to, p), its ACK was not processed, to stayed in devices.
Spent(to, p) == <<to, p>> \in DOMAIN admitted /\ admitted[<<to, p>>] # 0

\* C1: the router admits a (recipient, preimage) at most once: a SEND is admitted
\* (commit removed, DELIVER enqueued) only for a pair never admitted before.
C1_AdmittedAtMostOnce ==
    [][\A s \in Sessions :
          (Validates(s) /\ route'[s].pc = "enqueue")
          => <<route[s].to_id52, route[s].preimage>> \notin DOMAIN admitted]_vars

\* C2 as stated: after the ACK of an admitted SEND(to, p) was processed, the next
\* SEND(to, p) looked up within the TTL returns OK with the bytes of that ACK and
\* no DELIVER is enqueued.
C2_RetryReturnsAck ==
    [][\A s \in Sessions :
          LET r == route'[s] IN
          (/\ LooksUp(s)
           /\ r.preimage \in DOMAIN acked
           /\ acked[r.preimage].to_id52 = r.to_id52
           /\ acked[r.preimage].at + CacheTtlSecs > now)
          => /\ r.pc = "reply" /\ r.status = SEND_OK
             /\ r.response = acked[r.preimage].response
             /\ rx' = rx /\ pending' = pending]_vars

\* C2 amended: the same, provided no I_AM listed the preimage in recent_responses
\* after the ACK; the first SEND carrying the preimage takes the cache entry, whatever
\* its recipient.
C2_RetryReturnsAckUnlessPreloaded ==
    [][\A s \in Sessions :
          LET r == route'[s] IN
          (/\ LooksUp(s)
           /\ r.preimage \in DOMAIN acked
           /\ ~acked[r.preimage].preloaded
           /\ acked[r.preimage].at + CacheTtlSecs > now)
          => /\ r.pc = "reply" /\ r.status = SEND_OK
             /\ r.response = acked[r.preimage].response
             /\ rx' = rx /\ pending' = pending]_vars

\* A retry was served from the cache with the bytes an ACK carried.
C2_Witness ==
    \E s \in Sessions : ServedFromCache(s) /\ route[s].response \in ClientResponses

\* C3: once a SEND(R, P) was admitted and no ACK for it was processed, every later
\* SEND(R, P) while R is registered returns INVALID_PREIMAGE and enqueues no DELIVER.
C3_RetryWithoutAckFails ==
    [][\A s \in Sessions :
          /\ (LooksUp(s) /\ Spent(route'[s].to_id52, route'[s].preimage))
             => route'[s].pc = "validate"
          /\ (Validates(s) /\ Spent(route[s].to_id52, route[s].preimage))
             => /\ route'[s].pc = "reply"
                /\ route'[s].status = SEND_ERR_INVALID_PREIMAGE
                /\ rx' = rx]_vars

\* C4: route_message returns NOT_CONNECTED when to_id52 has no devices entry, whatever
\* the preimage, and INVALID_PREIMAGE when it has one whose commits lack
\* sha256(preimage); both leave devices, pending, next_msg_id and every rx unchanged.
C4_RejectionsChangeNothing ==
    [][\A s \in Sessions :
          LET r == route[s]
              rejected == r.to_id52 \notin DOMAIN devices
                          \/ sha256(r.preimage) \notin devices[r.to_id52].commits
          IN (Validates(s) /\ rejected)
             => /\ route'[s].pc = "reply"
                /\ route'[s].status = IF r.to_id52 \notin DOMAIN devices
                                       THEN SEND_ERR_NOT_CONNECTED
                                       ELSE SEND_ERR_INVALID_PREIMAGE
                /\ UNCHANGED <<devices, pending, next_msg_id, rx>>]_vars

\* One route_message has returned NOT_CONNECTED and another INVALID_PREIMAGE.
C4_Witness ==
    \E s, u \in Sessions :
        /\ route[s].pc = "reply" /\ route[s].status = SEND_ERR_NOT_CONNECTED
        /\ route[u].pc = "reply" /\ route[u].status = SEND_ERR_INVALID_PREIMAGE
        /\ route[u].to_id52 \in DOMAIN devices

\* ---------------------------------------------------------- endpoint claims
\* Session s reads an UPDATE_COMMITS frame of a registered connection.
ReadsUpdateCommits(s) ==
    /\ sess[s].status = "open" /\ sess[s].id52 # None
    /\ inbox[s] # <<>> /\ Head(inbox[s]).msg_type = "UPDATE_COMMITS"
    /\ inbox'[s] = Tail(inbox[s]) /\ sess'[s].status = "open"

\* C10: when the relay has read an UPDATE_COMMITS frame of a registered connection,
\* the commits of the frame are in the commit set of that endpoint, before any
\* later frame of the connection is looked at.
C10_UpdateCommitsAdds ==
    [][\A s \in Sessions :
          ReadsUpdateCommits(s)
          => /\ sess[s].id52 \in DOMAIN devices'
             /\ Head(inbox[s]).commits \subseteq devices'[sess[s].id52].commits]_vars

\* Endpoint e is registered on its connection and nothing of it is on the way:
\* no frame written and unread in either direction, no frame left to write, no
\* request addressed to it under way.
Settled(e) ==
    LET s == ep[e].conn IN
    /\ ep[e].pc \in {"recv", "pair", "send"} /\ ep[e].todo = <<>>
    /\ link[s] = "up" /\ sess[s].status = "open" /\ sess[s].id52 = e
    /\ e \in DOMAIN devices /\ devices[e].sender = s
    /\ inbox[s] = <<>> /\ outbox[s] = <<>> /\ rx[s] = <<>>
    /\ \A u \in Sessions : route[u].pc # "idle" => route[u].to_id52 # e

\* C5: while an endpoint is connected and no UPDATE_COMMITS of it is in flight, the
\* commit set the relay holds for it is the set of commits of its persisted state.
C5_RelayHoldsStateCommits ==
    \A e \in Ids : Settled(e) => devices[e].commits = get_all_commits(disk[e])

\* send() of caller e has returned after a SEND_RESULT with status OK.
SendAnswered(e) ==
    ep[e].pc \in {"send_ok", "send_err"} /\ ep[e].how \in {"ok", "refused", "decode"}

\* C6 as stated: after a request that the relay answered with SEND_RESULT OK, the
\* their_preimage the sender holds for the recipient is the successor the recipient
\* generated for the preimage of that delivery, issued to the sender.
C6_SenderHoldsSuccessor ==
    \A e \in Callers :
        SendAnswered(e)
        => /\ ep[e].req \in DOMAIN renewed
           /\ renewed[ep[e].req].peer = e
           /\ disk[e].peers[ep[e].peer].their_preimage = renewed[ep[e].req].next

\* C6, the part that holds: when the recipient recognised the preimage of the
\* delivery as one it issued, the sender holds the successor generated for it;
\* otherwise the recipient answered without a successor and the sender keeps the
\* preimage it sent.
C6_SenderHoldsSuccessorIfRenewed ==
    \A e \in Callers :
        SendAnswered(e)
        => /\ state[e] = disk[e]
           /\ IF ep[e].req \in DOMAIN renewed
              THEN /\ renewed[ep[e].req].peer = e
                   /\ disk[e].peers[ep[e].peer].their_preimage = renewed[ep[e].req].next
              ELSE disk[e].peers[ep[e].peer].their_preimage = ep[e].req

\* A send() has returned Ok and the sender holds a successor other than the
\* preimage it sent.
C6_Witness ==
    \E e \in Callers :
        /\ ep[e].pc = "send_ok" /\ ep[e].req \in DOMAIN renewed
        /\ disk[e].peers[ep[e].peer].their_preimage = renewed[ep[e].req].next
        /\ renewed[ep[e].req].next # ep[e].req

\* C7: after pair() returned Ok, the inviter holds no invite for the token and a
\* peer record for the initiator with their_preimage = the initiator's my_preimage
\* and one issued preimage; the initiator holds no pending record and a peer record
\* with their_preimage = that issued preimage and issued_preimages = [my_preimage].
C7_PairingHappyPath ==
    \A e \in Callers :
        ep[e].pc = "pair_ok"
        => LET a == ep[e].peer
               A == disk[a]
               B == disk[e] IN
           /\ ep[e].req \notin DOMAIN A.invites
           /\ e \in DOMAIN A.peers
           /\ A.peers[e].their_preimage = ep[e].mine
           /\ Len(A.peers[e].issued_preimages) = 1
           /\ a \notin DOMAIN B.pending_peers
           /\ a \in DOMAIN B.peers
           /\ B.peers[a].their_preimage = A.peers[e].issued_preimages[1]
           /\ B.peers[a].issued_preimages = <<ep[e].mine>>

\* C8: after pair() failed on the token, on a SEND_RESULT other than OK or on a
\* HANDSHAKE_COMPLETE REJECTED, the initiator holds no pending record for the
\* remote identifier.
C8_FailedPairingLeavesNothing ==
    \A e \in Callers :
        (ep[e].pc = "pair_err" /\ ep[e].how \in {"token", "status", "rejected"})
        => (ep[e].peer = None \/ ep[e].peer \notin DOMAIN disk[e].pending_peers)

\* Serving endpoint e takes a DELIVER from its connection and handles it.
Handles(e) == ep[e].pc = "recv" /\ ep[e].todo = <<>> /\ ep'[e].todo # <<>>
\* The DELIVER a Handles step takes.
Delivered(e) == Head(outbox[ep[e].conn])
\* The DELIVER carries a HANDSHAKE_INIT whose preimage is not an open invite of e.
Mismatch(e) ==
    /\ parse_device_msg_type(Delivered(e).payload) = DEV_HANDSHAKE_INIT
    /\ Delivered(e).preimage \notin DOMAIN state[e].invites
\* The handler answers HANDSHAKE_COMPLETE REJECTED and leaves the state as it was.
Rejects(e) ==
    /\ ep'[e].todo = <<AckFrame(Delivered(e).msg_id,
                                HandshakeComplete(HANDSHAKE_REJECTED, NoPreimage))>>
    /\ state'[e] = state[e] /\ disk'[e] = disk[e]
\* The step handles a HANDSHAKE_INIT carrying preimage p.
MatchingInit(e, p) ==
    /\ Handles(e)
    /\ parse_device_msg_type(Delivered(e).payload) = DEV_HANDSHAKE_INIT
    /\ Delivered(e).preimage = p
\* The step handles an invite/delete request for p from a peer of role owner.
OwnerDeletes(e, p) ==
    /\ Handles(e)
    /\ Delivered(e).payload.tag = "request"
    /\ Delivered(e).payload.cmd = "invite/delete" /\ Delivered(e).payload.id = p
    /\ lookup_preimage(state[e], Delivered(e).preimage).kind = "peer"
    /\ state[e].peers[lookup_preimage(state[e], Delivered(e).preimage).id52].role = "owner"
\* The invites that leave the state of e in the step.
Removed(e) == DOMAIN state[e].invites \ DOMAIN state'[e].invites

Ended(s, id) == sess[s].status = "closed" /\ sess[s].id52 = id

\* C11: once an authenticated session has ended, by EOF or by an error, the router
\* has no entry for its identifier that still belongs to that session, and a SEND
\* addressed to an identifier whose session has ended is answered NOT_CONNECTED
\* with the commit sets unchanged.
C11_EndedSessionUnregistered ==
    /\ \A id \in DOMAIN devices : ~Ended(devices[id].sender, id)
    /\ \A s \in Sessions :
          (route[s].pc \in {"enqueue", "wait"}) => ~Ended(route[s].sender, route[s].to_id52)

\* route_message of session s returns from its wait for the response.
Released(s) == route[s].pc = "wait" /\ route'[s].pc = "reply"
\* The session that the DELIVER of s was enqueued to has ended and no response came.
RecipientGone(s) == sess[route[s].sender].status = "closed" /\ ~route[s].got

\* C12: a route_message call that waits for the response of a client whose session
\* has ended returns DISCONNECTED; it does not run to the 30 second deadline.
C12_WaitersReleased ==
    [][\A s \in Sessions :
          (Released(s) /\ RecipientGone(s))
          => route'[s].status = SEND_ERR_DISCONNECTED]_vars

\* ----------------------------------------------------------- timeout claims
\* The msg_ids of the deliveries waiting in the queue of session u.
Queued(u) == {rx[u][i].msg_id : i \in DOMAIN rx[u]}
\* Session s takes the step of route_message that enqueues its DELIVER.
Enqueues(s) == route[s].pc = "enqueue" /\ route'[s].pc = "wait"
\* Another route_message call waits for a response, or has given up on one.
OtherWaits(u) ==
    \/ \E s \in Sessions \ {u} : route[s].pc = "wait"
    \/ \E m \in DOMAIN pending : \A s \in Sessions : route[s].msg_id # m

\* C13: a SEND whose DELIVER is never ACKed by a connected recipient returns
\* TIMEOUT, not before the 30 second deadline; a DELIVER enters a queue only in the
\* one enqueue step of its route_message call, under a msg_id never used before;
\* and while another call waits or has timed out, a SEND with a commit the
\* recipient holds is admitted and returns OK with the ACK's bytes once ACKed.
C13_TimeoutAndOthersProceed ==
    [][\A s \in Sessions :
          /\ (Released(s) /\ ~route[s].got /\ sess[route[s].sender].status = "open")
             => /\ route'[s].status = SEND_ERR_TIMEOUT
                /\ now >= route[s].deadline
                /\ route[s].deadline >= SendTimeoutSecs
          /\ \A m \in Queued(s)' \ Queued(s) :
                \E u \in Sessions : Enqueues(u) /\ route[u].msg_id = m /\ route[u].sender = s
          /\ (route[s].pc \in {"wait", "reply"}) => route'[s].pc # "enqueue"
          /\ (Validates(s) /\ route'[s].pc = "enqueue")
             => /\ route'[s].msg_id = next_msg_id /\ next_msg_id' > next_msg_id
                /\ \A u \in Sessions : route[u].msg_id < next_msg_id
          /\ (Validates(s) /\ OtherWaits(s)
              /\ ValidateStatus(devices, route[s].to_id52, route[s].preimage) = SEND_OK)
             => route'[s].pc = "enqueue"
          /\ (Released(s) /\ route[s].got)
             => /\ route'[s].status = SEND_OK
                /\ route'[s].response = route[s].response]_vars

\* A SEND has timed out with its recipient connected, and a SEND of another session,
\* admitted afterwards, is about to return OK.
C13_Witness ==
    \E u \in Sessions :
        /\ route[u].pc = "reply" /\ route[u].status = SEND_OK /\ route[u].msg_id # 0
        /\ \E m \in DOMAIN pending :
              /\ m < route[u].msg_id
              /\ \A s \in Sessions : route[s].msg_id # m
              /\ sent[m] \in DOMAIN devices
              /\ sess[devices[sent[m]].sender].status = "open"

\* ------------------------------------------------------- a stalled recipient
\* The relay with a recipient whose client has stopped reading.  A is registered on
\* connection 1; SENDs to A were admitted, one after the other, each from a
\* connection that is closed by now, and none was ACKed: the first MaxOutbox DELIVER
\* frames are written and unread, Session::send_delivery waits in write_frame, and
\* the n deliveries admitted after them are in the queue of the session.  Every one
\* of the calls has timed out, which leaves its pending entry behind.
Stalled == 1
Gone == MaxSessions
\* The preimage the SEND of msg_id m carried; the sender's clients use others now.
OldPreimage(m) == MaxPreimage + m
OldDelivery(m) == [msg_id |-> m, preimage |-> OldPreimage(m), payload |-> Raw("m1")]
QueueInit ==
    \E n \in {0, ChannelDepth - 1, ChannelDepth} :
        /\ devices = MapPut(EmptyMap, "A", [sender |-> Stalled, commits |-> Commits])
        /\ response_cache = EmptyMap
        /\ pending = [m \in 1..(MaxOutbox + n) |-> [preimage |-> OldPreimage(m), tx |-> Gone]]
        /\ next_msg_id = MaxOutbox + n + 1
        /\ sess = [s \in Sessions |->
                     IF s = Stalled THEN [status |-> "open", id52 |-> "A"]
                     ELSE IF s = Gone THEN [status |-> "closed", id52 |-> None]
                     ELSE [status |-> "new", id52 |-> None]]
        /\ route = [s \in Sessions |-> IdleRoute]
        /\ rx = [s \in Sessions |->
                   IF s = Stalled THEN [i \in 1..n |-> OldDelivery(MaxOutbox + i)] ELSE <<>>]
        /\ inbox = [s \in Sessions |-> <<>>]
        /\ outbox = [s \in Sessions |->
                       IF s = Stalled
                       THEN [i \in 1..MaxOutbox |->
                               DeliverFrame(i, OldPreimage(i), Raw("m1"))]
                       ELSE <<>>]
        /\ link = [s \in Sessions |-> IF s = Stalled THEN "up" ELSE "down"]
        /\ now = 0
        /\ admitted = [k \in {<<"A", OldPreimage(m)>> : m \in 1..(MaxOutbox + n)} |->
                          k[2] - MaxPreimage]
        /\ sent = [m \in 1..(MaxOutbox + n) |-> "A"]
        /\ acked = EmptyMap
        /\ loaded = EmptyMap
        /\ frames = 0
        /\ InitNodes({"node"})

\* The steps of Next that can happen here.  No ACK is read while a call waits (the
\* stalled session reads nothing, and the session of the one client that is left is
\* inside its own route_message), so RouteResponse has no part.
QueueNext ==
    \/ \E s \in Sessions : ClientConnect(s)
    \/ \E s \in Sessions : ClientFrame(s)
    \/ \E s \in Sessions : ClientClose(s)
    \/ \E s \in Sessions : RouteValidate(s)
    \/ \E s \in Sessions : RouteEnqueue(s)
    \/ \E s \in Sessions : RouteTimeout(s)
    \/ \E s \in Sessions : SessionReply(s)
    \/ \E s \in Sessions : SessionDeliver(s)
    \/ \E s \in Sessions : SessionEof(s)
    \/ Tick

QueueSpec == QueueInit /\ [][QueueNext]_vars

\* C14: a SEND that the relay has read and not answered is either one the relay
\* can take its next step on, or one that waits for the response with its 30
\* second deadline running and not yet passed; in no state of the recipient is it
\* held anywhere else.
C14_AnsweredWithinDeadline ==
    \A s \in Sessions :
        (sess[s].status = "open" /\ route[s].pc \in {"validate", "enqueue", "wait"}
         /\ ~Busy(s))
        => (route[s].pc = "wait" /\ now < route[s].deadline)

\* ------------------------------------------------------ permission claims
\* The ACK among the frames a handler is about to write.
AckOf(e) == SelectSeq(ep'[e].todo, LAMBDA x : x.msg_type = "ACK")[1]

\* The peer whose preimage the delivery carries, None if there is none.
Requester(e) == lookup_preimage(state[e], Delivered(e).preimage)

\* The endpoint e, running dispatch_command, handles a request for cmd from a peer
\* whose role is in roles.
HandlesCommand(e, roles, cmds) ==
    /\ Handles(e) /\ ep[e].lib \in {"node", "device"}
    /\ Delivered(e).payload.tag = "request" /\ Delivered(e).payload.cmd \in cmds
    /\ Requester(e).kind = "peer"
    /\ state[e].peers[Requester(e).id52].role \in roles

\* Nothing of the peer table changes but the issued preimages of the peer who
\* called, which consume_and_renew_preimage rotates on every command.
OnlyRotated(e) ==
    /\ DOMAIN state'[e].peers = DOMAIN state[e].peers
    /\ \A i \in DOMAIN state[e].peers :
          /\ state'[e].peers[i].role = state[e].peers[i].role
          /\ state'[e].peers[i].their_preimage = state[e].peers[i].their_preimage
          /\ i # Requester(e).id52 => state'[e].peers[i] = state[e].peers[i]

\* C15: invite/create, invite/list, invite/delete and peers/list are for the owner:
\* when a writer or a reader calls one of them the response has ok = false, no invite
\* is created or deleted and no peer is added, removed or changed in role.
C15_BuiltinsOwnerOnly ==
    [][\A e \in Servers :
          HandlesCommand(e, {"writer", "reader"},
                         {"invite/create", "invite/list", "invite/delete", "peers/list"})
          => /\ AckOf(e).payload.tag = "response" /\ ~AckOf(e).payload.ok
             /\ state'[e].invites = state[e].invites
             /\ disk'[e].invites = disk[e].invites
             /\ OnlyRotated(e)]_vars

\* A writer or reader has just been denied a built-in command, with invites left to
\* delete.
C15_Witness ==
    \E e \in Servers :
        /\ ep[e].lib \in {"node", "device"} /\ Len(ep[e].todo) = 2
        /\ ep[e].todo[2].msg_type = "ACK" /\ ep[e].todo[2].payload.tag = "response"
        /\ ep[e].todo[2].payload.text = "permission denied: owner only"
        /\ "B" \in DOMAIN state[e].peers /\ state[e].peers["B"].role \in {"writer", "reader"}
        /\ DOMAIN state[e].invites # {}

\* consume_and_renew_preimage has replaced the preimage of the delivery by a fresh
\* one in the issued preimages of the peer who called.
Rotated(e) ==
    LET i == Requester(e).id52
        p == Delivered(e).preimage IN
    /\ p \notin Range(state'[e].peers[i].issued_preimages)
    /\ Len(state'[e].peers[i].issued_preimages) = Len(state[e].peers[i].issued_preimages)

\* C16: on a smart switch a reader who sends on, off or toggle is answered ok = false
\* with "permission denied: writer or owner only", the switch stays as it was, and
\* the preimage the reader used is rotated all the same.
C16_ReaderCannotSwitch ==
    [][\A e \in Servers :
          (HandlesCommand(e, {"reader"}, {"on", "off", "toggle"})
           /\ SwitchCommands \subseteq ep[e].handlers)
          => /\ ~AckOf(e).payload.ok
             /\ AckOf(e).payload.text = "permission denied: writer or owner only"
             /\ ep'[e].is_on = ep[e].is_on
             /\ Rotated(e)]_vars

\* The response of handle_command to a preimage that lookup_preimage does not
\* resolve to a peer.
Unauthorized == Response(FALSE, "unauthorized", NoPreimage, NoPreimage)

\* Node::run or Device::run handles an application message whose preimage is not an
\* issued preimage of any peer.
HandlesStranger(e) ==
    /\ Handles(e) /\ ep[e].lib \in {"node", "device"}
    /\ parse_device_msg_type(Delivered(e).payload) # DEV_HANDSHAKE_INIT
    /\ Requester(e).kind # "peer"

\* The relay has processed the "unauthorized" ACK of endpoint e for preimage p.
Refused(e, p) ==
    p \in DOMAIN acked /\ acked[p].to_id52 = e /\ acked[p].response = Unauthorized

\* The relay holds the commit of p for endpoint e: a SEND to e with p that reaches
\* the commit check is admitted.
Admissible(e, p) == e \in DOMAIN devices /\ sha256(p) \in devices[e].commits

\* C17: an application message that arrives with a preimage not issued to any peer,
\* the preimage of an outstanding invite included, is answered "unauthorized" and
\* runs no handler; its commit stays consumed, the relay never again holds it for
\* this endpoint, so that no later SEND with that preimage is admitted.
C17_StrangerRefusedCommitSpent ==
    [][/\ \A e \in Servers :
             HandlesStranger(e)
             => /\ AckOf(e).payload = Unauthorized
                /\ state'[e] = state[e] /\ disk'[e] = disk[e]
                /\ ep'[e].is_on = ep[e].is_on
       /\ \A e \in Servers, p \in 1..MaxRandom :
             Refused(e, p)' => ~Admissible(e, p)']_vars

\* ------------------------------------------------------- ordering claims
\* The handler of endpoint e writes a frame of the given type.
Writes(e, type) ==
    /\ ep[e].todo # <<>> /\ Head(ep[e].todo).msg_type = type
    /\ ep'[e].todo = Tail(ep[e].todo)

\* C18: every serving loop persists before it acknowledges: when the ACK of a
\* delivery is written, state.json holds the state the handler has left in memory
\* (the promoted peer of a handshake, the rotated preimage of a message).
C18_PersistBeforeAck ==
    [][\A e \in Servers : Writes(e, "ACK") => disk[e] = state[e]]_vars

\* The ACK the handler of e writes hands a successor preimage to the caller: the
\* preimage_for_peer of an accepted handshake, or the preimage appended to a response.
HandsOut(e) ==
    LET pl == Head(ep[e].todo).payload IN
    CASE pl.tag = "complete" -> IF pl.status = HANDSHAKE_ACCEPTED THEN pl.preimage_for_peer
                                ELSE NoPreimage
      [] pl.tag \in {"response", "message_response"} -> pl.next
      [] OTHER -> NoPreimage

\* The UPDATE_COMMITS for the commit of p is still among the frames to write.
Unregistered(e, p) ==
    \E i \in DOMAIN ep[e].todo :
        /\ ep[e].todo[i].msg_type = "UPDATE_COMMITS"
        /\ sha256(p) \in ep[e].todo[i].commits

\* C19: whenever an endpoint hands out a successor preimage, in the ACK of an
\* accepted handshake and in the ACK of a command, the UPDATE_COMMITS that registers
\* its commit has been written before that ACK.
C19_UpdateCommitsBeforeAck ==
    [][\A e \in Servers :
          (Writes(e, "ACK") /\ HandsOut(e) # NoPreimage) => ~Unregistered(e, HandsOut(e))]_vars

\* ------------------------------------------------------- peer table claims
\* The established peer records the state st of an endpoint running lib holds for
\* the remote identifier id: the ESP32 firmware keeps a vector of (identifier,
\* record), the libraries a map.
RecordsFor(lib, st, id) ==
    IF lib = "esp32"
    THEN Cardinality({i \in DOMAIN st.peers : st.peers[i].id52 = id})
    ELSE IF id \in DOMAIN st.peers THEN 1 ELSE 0

\* The serving loop of e accepts a HANDSHAKE_INIT.
Accepts(e) ==
    /\ Handles(e)
    /\ parse_device_msg_type(Delivered(e).payload) = DEV_HANDSHAKE_INIT
    /\ AckOf(e).payload.status = HANDSHAKE_ACCEPTED

\* C20: an endpoint holds at most one established peer record per remote
\* identifier; a handshake accepted from a remote leaves exactly one record for it,
\* also when the remote already has one from an earlier handshake against another
\* invite.
C20_OnePeerRecordPerRemote ==
    [][\A e \in Servers :
          /\ \A id \in Ids : RecordsFor(ep[e].lib, state'[e], id) <= 1
          /\ Accepts(e) => RecordsFor(ep[e].lib, state'[e],
                                       Delivered(e).payload.sender_id52) = 1]_vars

\* B, already an established peer through the first invite, has completed a
\* handshake against the second: both invites are used up and B has one record.
C20_Witness ==
    \E e \in Servers :
        /\ ep[e].lib \in {"node", "device", "cli"}
        /\ ep[e].todo # <<>> /\ Head(ep[e].todo).msg_type = "ACK"
        /\ Head(ep[e].todo).payload.tag = "complete"
        /\ Head(ep[e].todo).payload.status = HANDSHAKE_ACCEPTED
        /\ DOMAIN state[e].invites = {} /\ DOMAIN state[e].peers = {"B"}
        /\ state[e].peers["B"].role = "owner"

\* ------------------------------------------------------- preimage renewal
\* The peer that lookup_preimage of an endpoint running lib resolves p to in state
\* st, None if it resolves to no peer: DeviceState::lookup_preimage of bhumi-node
\* and of the ESP32 firmware.
PeerOf(lib, st, p) ==
    IF lib = "esp32"
    THEN IF esp32_lookup_preimage(st, p) = 0 THEN None
         ELSE st.peers[esp32_lookup_preimage(st, p)].id52
    ELSE IF lookup_preimage(st, p).kind = "peer" THEN lookup_preimage(st, p).id52 ELSE None

\* How many preimages the state holds by which the peer id can reach the endpoint:
\* the issued_preimages of its record, the one their_preimage on the ESP32.
IssuedTo(lib, st, id) ==
    IF lib = "esp32"
    THEN Cardinality({i \in DOMAIN st.peers : st.peers[i].id52 = id})
    ELSE IF id \in DOMAIN st.peers THEN Len(st.peers[id].issued_preimages) ELSE 0

\* The handler of e calls consume_and_renew_preimage / renew_preimage in this step,
\* for the preimage of the delivery.
Renews(e) == Handles(e) /\ Delivered(e).preimage \in DOMAIN renewed' \ DOMAIN renewed

\* The commits the UPDATE_COMMITS frames of the handler register.
CommitsOf(e) ==
    UNION {ep'[e].todo[i].commits :
           i \in {j \in DOMAIN ep'[e].todo : ep'[e].todo[j].msg_type = "UPDATE_COMMITS"}}

\* C21: consume_and_renew_preimage, called in a handler for the peer that
\* lookup_preimage found for the preimage old of a delivery, takes old out of the
\* peer's issued preimages and puts one fresh preimage new in: afterwards old
\* resolves to nothing, new resolves to that peer, the peer holds as many issued
\* preimages as before, and the handler has new and its SHA-256 in hand (new goes
\* into the ACK, the commit into UPDATE_COMMITS).
C21_ConsumeAndRenew ==
    [][\A e \in Servers :
          Renews(e)
          => LET lib == ep[e].lib
                 old == Delivered(e).preimage
                 new == renewed'[old].next
                 peer == renewed'[old].peer IN
             /\ PeerOf(lib, state[e], old) = peer
             /\ new # old /\ PeerOf(lib, state[e], new) = None
             /\ PeerOf(lib, state'[e], old) = None
             /\ lib # "esp32" => lookup_preimage(state'[e], old).kind = "none"
             /\ PeerOf(lib, state'[e], new) = peer
             /\ IssuedTo(lib, state'[e], peer) = IssuedTo(lib, state[e], peer)
             /\ \A id \in Ids \ {peer} :
                   IssuedTo(lib, state'[e], id) = IssuedTo(lib, state[e], id)
             /\ AckOf(e).payload.next = new
             /\ CommitsOf(e) = {sha256(new)}]_vars

\* A handler has renewed the preimage of a peer: the old one resolves to nothing,
\* the new one to the peer, and the ACK that carries it is about to be written.
C21_Witness ==
    \E e \in Servers, p \in DOMAIN renewed :
        /\ ep[e].todo # <<>>
        /\ \E i \in DOMAIN ep[e].todo :
              /\ ep[e].todo[i].msg_type = "ACK"
              /\ ep[e].todo[i].payload.tag \in {"response", "message_response"}
              /\ ep[e].todo[i].payload.next = renewed[p].next
        /\ PeerOf(ep[e].lib, state[e], p) = None
        /\ PeerOf(ep[e].lib, state[e], renewed[p].next) = renewed[p].peer

\* ------------------------------------------------------- delivery order
\* Session u takes the next delivery out of its queue and writes its DELIVER frame.
Emits(u) ==
    /\ rx[u] # <<>> /\ rx'[u] = Tail(rx[u])
    /\ sess'[u].status = "open"

\* The deliveries that wait in the queue of u behind the one at its head.
Behind(u) == {rx[u][i] : i \in 2..Len(rx[u])}

\* C22: for one recipient the DELIVER frames go out in the order in which the
\* router admitted the SENDs, that is in the order of their msg_ids: when a session
\* writes a DELIVER, no delivery admitted earlier for the same recipient is still
\* waiting behind it.
C22_DeliverInAdmissionOrder ==
    [][\A u \in Sessions :
          Emits(u)
          => \A d \in Behind(u) :
                sent[d.msg_id] = sent[Head(rx[u]).msg_id]
                => Head(rx[u]).msg_id < d.msg_id]_vars

\* ------------------------------------------------------ requests in flight
\* The relay with a registered recipient and two callers, all connected: A has
\* registered on connection 1 with the commits of Preimages, connections 2 and 3
\* have read HELLO and have not written an I_AM.  The clients write their frames
\* and the sessions read them in turn, so that several SENDs are in flight at once
\* and the ACKs come in any order, from any connection.
Recipient == 1
Flight == 1..3
FlightResponses == {Raw("r1"), Raw("r2")}
Stranger == 3
\* The callers write SENDs to A, the client of A writes ACKs; so does the client of
\* connection Stranger, which never sent I_AM and was sent no DELIVER, and which
\* also writes frames that break the protocol.
FlightFrames(s) ==
    IF s = Recipient
    THEN {AckFrame(m, pl) : m \in AckIds, pl \in FlightResponses}
    ELSE {SendFrame("A", p, pl) : p \in Preimages, pl \in ClientPayloads}
         \cup IF s = Stranger
              THEN {AckFrame(m, Raw("r3")) : m \in AckIds}
                   \cup {UnknownFrame, MalformedFrame, OversizeFrame,
                         IAmFrame("B", FALSE, Commits, ClientRecents)}
              ELSE {}

FlightInit ==
    /\ devices = Register(EmptyMap, "A", Commits, Recipient)
    /\ response_cache = EmptyMap
    /\ pending = EmptyMap
    /\ next_msg_id = 1
    /\ sess = [s \in Sessions |->
                 IF s = Recipient THEN [status |-> "open", id52 |-> "A"]
                 ELSE IF s \in Flight THEN [status |-> "open", id52 |-> None]
                 ELSE [status |-> "new", id52 |-> None]]
    /\ route = [s \in Sessions |-> IdleRoute]
    /\ rx = [s \in Sessions |-> <<>>]
    /\ inbox = [s \in Sessions |-> <<>>]
    /\ outbox = [s \in Sessions |-> <<>>]
    /\ link = [s \in Sessions |-> IF s \in Flight THEN "sink" ELSE "down"]
    /\ now = 0
    /\ admitted = EmptyMap
    /\ sent = EmptyMap
    /\ acked = EmptyMap
    /\ loaded = EmptyMap
    /\ frames = 0
    /\ InitNodes({"node"})

\* A client writes a frame to its connection; a caller writes its next SEND when
\* it has read the SEND_RESULT of the one before.
FlightWrite(s) ==
    /\ frames < MaxFrames /\ link[s] = "sink" /\ Reading(s)
    /\ inbox[s] = <<>>
    /\ frames' = frames + 1
    /\ \E f \in FlightFrames(s) : inbox' = [inbox EXCEPT ![s] = Append(@, f)]
    /\ UNCHANGED <<relayVars, sess, route, rx, outbox, link, now, admitted, sent, acked,
                   loaded, nodeVars>>

\* No client closes its connection here, so SessionEof has no part.
FlightNext ==
    \/ \E s \in Sessions : FlightWrite(s)
    \/ \E s \in Sessions : SessionRead(s)
    \/ \E s \in Sessions : RouteValidate(s)
    \/ \E s \in Sessions : RouteEnqueue(s)
    \/ \E s \in Sessions : RouteResponse(s)
    \/ \E s \in Sessions : RouteTimeout(s)
    \/ \E s \in Sessions : SessionReply(s)
    \/ \E s \in Sessions : SessionDeliver(s)
    \/ Tick

FlightSpec == FlightInit /\ [][FlightNext]_vars

\* Session u reads the frame at the head of its connection, of the given type.
Reads(u, type) ==
    /\ Reading(u) /\ inbox[u] # <<>> /\ Head(inbox[u]).msg_type = type
    /\ inbox'[u] = Tail(inbox[u])

\* The route_message call of session s holds the receiving end of the response
\* channel of msg_id m.
Awaits(s, m) == route[s].pc \in {"enqueue", "wait"} /\ route[s].msg_id = m

\* C23: the router correlates ACKs by msg_id alone.  An ACK(m, bytes) that finds
\* pending[m] takes that entry and no other, puts bytes into the cache under the
\* preimage of the SEND that was given m and touches no other cache entry, and hands
\* bytes to the call that waits for m and to no other; a call gets a response only
\* from the ACK of its own msg_id, and returns OK with exactly those bytes, in
\* whatever order the ACKs of the calls in flight arrive.
C23_AckCorrelatedByMsgId ==
    [][/\ \A u \in Sessions :
             (Reads(u, "ACK") /\ Head(inbox[u]).msg_id \in DOMAIN pending)
             => LET f == Head(inbox[u])
                    m == f.msg_id IN
                /\ pending' = MapDel(pending, m)
                /\ response_cache' = MapPut(response_cache, pending[m].preimage,
                       [response |-> f.payload, expires_at |-> now + CacheTtlSecs])
                /\ \A s \in Sessions :
                      route'[s] = IF Awaits(s, m)
                                  THEN [route[s] EXCEPT !.got = TRUE, !.response = f.payload]
                                  ELSE route[s]
       /\ \A s \in Sessions :
             /\ (~route[s].got /\ route'[s].got)
                => \E u \in Sessions :
                      Reads(u, "ACK") /\ Head(inbox[u]).msg_id = route[s].msg_id
             /\ (route[s].got /\ route[s].pc = "enqueue" /\ route'[s].pc = "wait")
                => (route'[s].got /\ route'[s].response = route[s].response)
             /\ (Released(s) /\ route[s].got)
                => (route'[s].status = SEND_OK /\ route'[s].response = route[s].response)
             /\ (route[s].pc = "wait" /\ route'[s].pc = "reply" /\ route'[s].status = SEND_OK)
                => route[s].got]_vars

\* Two SENDs were in flight at once and the ACK of the later one came first: the
\* call that was given msg_id 2 returns OK with the bytes of ACK 2 while the call
\* that was given msg_id 1 has the other bytes, those of ACK 1.
C23_Witness ==
    \E s, u \in Sessions :
        /\ route[s].pc = "reply" /\ route[s].status = SEND_OK /\ route[s].msg_id = 2
        /\ route[s].response = Raw("r2")
        /\ route[u].pc = "wait" /\ route[u].msg_id = 1 /\ route[u].got
        /\ route[u].response = Raw("r1")
        /\ route[s].preimage \in DOMAIN response_cache
        /\ response_cache[route[s].preimage].response = Raw("r2")
        /\ response_cache[route[u].preimage].response = Raw("r1")

\* C24: an ACK whose msg_id has no entry in pending, because the id was never
\* given out or because its ACK was processed before, is dropped silently: the
\* cache, pending, devices, the queues and every route_message call stay as they
\* are, the session writes nothing and goes on reading.
C24_LateAckDropped ==
    [][\A u \in Sessions :
          (Reads(u, "ACK") /\ Head(inbox[u]).msg_id \notin DOMAIN pending)
          => /\ UNCHANGED <<devices, response_cache, pending, next_msg_id>>
             /\ UNCHANGED <<route, rx, outbox, sess>>]_vars

\* One SEND was admitted and acknowledged, its response is in the cache, and of the
\* three frames read so far the third was an ACK that found nothing in pending.
C24_Witness ==
    /\ frames = 3 /\ next_msg_id = 2 /\ pending = EmptyMap
    /\ \A s \in Sessions : inbox[s] = <<>>
    /\ \E p \in DOMAIN acked : p \in DOMAIN response_cache

\* ------------------------------------------------------- recent responses
\* C25 as stated: after an I_AM that listed (P, bytes) in recent_responses, a SEND
\* with preimage P looked up within the TTL counted from that registration returns
\* OK with bytes, and no DELIVER is enqueued.
C25_RecentResponseServed ==
    [][\A s \in Sessions :
          LET r == route'[s] IN
          (/\ LooksUp(s)
           /\ r.preimage \in DOMAIN loaded
           /\ loaded[r.preimage].at + CacheTtlSecs > now)
          => /\ r.pc = "reply" /\ r.status = SEND_OK
             /\ r.response = loaded[r.preimage].response
             /\ rx' = rx /\ pending' = pending]_vars

\* C25, the part that holds: the same for the first SEND with preimage P after the
\* registration, provided the relay processed no ACK for a request with preimage P
\* in between; such an ACK puts its own bytes in the place of the listed ones.
C25_RecentResponseServedUnlessAcked ==
    [][\A s \in Sessions :
          LET r == route'[s] IN
          (/\ LooksUp(s)
           /\ r.preimage \in DOMAIN loaded
           /\ loaded[r.preimage].at + CacheTtlSecs > now
           /\ r.preimage \in DOMAIN acked => acked[r.preimage].preloaded)
          => /\ r.pc = "reply" /\ r.status = SEND_OK
             /\ r.response = loaded[r.preimage].response
             /\ rx' = rx /\ pending' = pending]_vars

\* A SEND was answered from the cache with the bytes an I_AM had listed, while its
\* recipient holds the commit of the preimage: the SEND would have been admitted
\* had the cache not answered.
C25_Witness ==
    \E s \in Sessions :
        /\ ServedFromCache(s)
        /\ route[s].response = ClientRecents[1].response
        /\ route[s].preimage = ClientRecents[1].preimage
        /\ ValidateStatus(devices, route[s].to_id52, route[s].preimage) = SEND_OK
        /\ \A u \in Sessions : rx[u] = <<>>


\* ============================================================== wire codec
\* bhumi-proto/src/lib.rs.  A byte is a number in 0..255, a Vec<u8> or a slice
\* a sequence of bytes.  Rust indexes from 0 and writes ranges half-open.
At(d, i) == d[i + 1]
Slice(d, from, to) == SubSeq(d, from + 1, to)

AsU16(n) == n % 65536
\* n mod 2^32, written without the number 2^32, which is beyond the checker's integers
AsU32(n) == n - ((n \div 65536) \div 65536) * 65536 * 65536
u16_to_be_bytes(n) == <<n \div 256, n % 256>>
u32_to_be_bytes(n) == <<n \div 16777216, (n \div 65536) % 256, (n \div 256) % 256, n % 256>>
u16_from_be_bytes_Little(d, i) == At(d, i) + At(d, i + 1) * 256
u16_from_be_bytes(d, i) == At(d, i) * 256 + At(d, i + 1)
u32_from_be_bytes(d, i) ==
    ((At(d, i) * 256 + At(d, i + 1)) * 256 + At(d, i + 2)) * 256 + At(d, i + 3)

\* io::Error of kind InvalidData (from_bytes) or UnexpectedEof (read_exact).
InvalidData == [type |-> "Err"]

\* for x in xs { buf.extend_from_slice(x) }
RECURSIVE Extend(_)
Extend(xs) == IF xs = <<>> THEN <<>> ELSE Head(xs) \o Extend(Tail(xs))

\* for i in 0..count { data[start + i * 32 .. start + i * 32 + 32] }
Arrays32(d, start, count) == [i \in 1..count |-> Slice(d, start + (i - 1) * 32, start + i * 32)]

\* --- HELLO
Hello_to_bytes(v) ==
    <<v.version>> \o u32_to_be_bytes(v.nonce) \o u32_to_be_bytes(v.max_payload_size)
Hello_from_bytes(d) ==
    IF Len(d) < 9 THEN InvalidData
    ELSE [type |-> "HELLO", version |-> At(d, 0), nonce |-> u32_from_be_bytes(d, 1),
          max_payload_size |-> u32_from_be_bytes(d, 5)]

\* --- I_AM
RecentResponse_to_bytes(r) ==
    r.preimage \o u32_to_be_bytes(AsU32(Len(r.response))) \o r.response
IAm_to_bytes(v) ==
    v.id52 \o v.signature
    \o u16_to_be_bytes(AsU16(Len(v.commits))) \o Extend(v.commits)
    \o u16_to_be_bytes(AsU16(Len(v.recent_responses)))
    \o Extend([i \in DOMAIN v.recent_responses |-> RecentResponse_to_bytes(v.recent_responses[i])])

\* The loop over response_count: the responses read, or ok = FALSE for an error.
RECURSIVE ReadResponses(_, _, _, _)
ReadResponses(d, pos, left, acc) ==
    IF left = 0 THEN [ok |-> TRUE, list |-> acc]
    ELSE IF Len(d) < pos + 36 THEN [ok |-> FALSE, list |-> <<>>]
    ELSE LET resp_len == u32_from_be_bytes(d, pos + 32)
         IN IF Len(d) < pos + 36 + resp_len THEN [ok |-> FALSE, list |-> <<>>]
            ELSE ReadResponses(d, pos + 36 + resp_len, left - 1,
                     Append(acc, [preimage |-> Slice(d, pos, pos + 32),
                                  response |-> Slice(d, pos + 36, pos + 36 + resp_len)]))
IAm_from_bytes(d) ==
    IF Len(d) < 32 + 64 + 2 THEN InvalidData
    ELSE LET commit_count == u16_from_be_bytes(d, 96)
             commits_end == 98 + commit_count * 32
         IN IF Len(d) < commits_end + 2 THEN InvalidData
            ELSE LET response_count == u16_from_be_bytes(d, commits_end)
                     recent == ReadResponses(d, commits_end + 2, response_count, <<>>)
                 IN IF ~recent.ok THEN InvalidData
                    ELSE [type |-> "I_AM", id52 |-> Slice(d, 0, 32),
                          signature |-> Slice(d, 32, 96),
                          commits |-> Arrays32(d, 98, commit_count),
                          recent_responses |-> recent.list]

\* --- SEND
Send_to_bytes(v) ==
    v.to_id52 \o v.preimage \o u32_to_be_bytes(AsU32(Len(v.payload))) \o v.payload
Send_from_bytes(d) ==
    IF Len(d) < 32 + 32 + 4 THEN InvalidData
    ELSE LET payload_len == u32_from_be_bytes(d, 64)
         IN IF Len(d) < 68 + payload_len THEN InvalidData
            ELSE [type |-> "SEND", to_id52 |-> Slice(d, 0, 32), preimage |-> Slice(d, 32, 64),
                  payload |-> Slice(d, 68, 68 + payload_len)]

\* --- UPDATE_COMMITS
UpdateCommits_to_bytes(v) == u16_to_be_bytes(AsU16(Len(v.commits))) \o Extend(v.commits)
UpdateCommits_from_bytes(d) ==
    IF Len(d) < 2 THEN InvalidData
    ELSE LET commit_count == u16_from_be_bytes(d, 0)
         IN IF Len(d) < 2 + commit_count * 32 THEN InvalidData
            ELSE [type |-> "UPDATE_COMMITS", commits |-> Arrays32(d, 2, commit_count)]

\* --- DELIVER and ACK: msg_id, payload
Deliver_to_bytes(v) ==
    u32_to_be_bytes(v.msg_id) \o u32_to_be_bytes(AsU32(Len(v.payload))) \o v.payload
Deliver_from_bytes(d) ==
    IF Len(d) < 8 THEN InvalidData
    ELSE LET payload_len == u32_from_be_bytes(d, 4)
         IN IF Len(d) < 8 + payload_len THEN InvalidData
            ELSE [type |-> "DELIVER", msg_id |-> u32_from_be_bytes(d, 0),
                  payload |-> Slice(d, 8, 8 + payload_len)]
Ack_to_bytes(v) ==
    u32_to_be_bytes(v.msg_id) \o u32_to_be_bytes(AsU32(Len(v.payload))) \o v.payload
Ack_from_bytes(d) ==
    IF Len(d) < 8 THEN InvalidData
    ELSE LET payload_len == u32_from_be_bytes(d, 4)
         IN IF Len(d) < 8 + payload_len THEN InvalidData
            ELSE [type |-> "ACK", msg_id |-> u32_from_be_bytes(d, 0),
                  payload |-> Slice(d, 8, 8 + payload_len)]

\* --- SEND_RESULT
SendResult_to_bytes(v) ==
    <<v.status>> \o u32_to_be_bytes(AsU32(Len(v.payload))) \o v.payload
SendResult_from_bytes(d) ==
    IF Len(d) < 5 THEN InvalidData
    ELSE LET payload_len == u32_from_be_bytes(d, 1)
         IN IF Len(d) < 5 + payload_len THEN InvalidData
            ELSE [type |-> "SEND_RESULT", status |-> At(d, 0),
                  payload |-> Slice(d, 5, 5 + payload_len)]

\* --- device layer: the first byte names the message
DEV_HANDSHAKE_COMPLETE == 2
DEV_MESSAGE_RESPONSE == 17

\* String::from_utf8: whether the bytes are well-formed UTF-8.
Continuation(b) == b >= 128 /\ b <= 191
RECURSIVE from_utf8(_)
from_utf8(bs) ==
    IF bs = <<>> THEN TRUE
    ELSE LET b == bs[1]
             n == Len(bs)
         IN IF b <= 127 THEN from_utf8(Tail(bs))
            ELSE IF b >= 194 /\ b <= 223
                 THEN n >= 2 /\ Continuation(bs[2]) /\ from_utf8(SubSeq(bs, 3, n))
            ELSE IF b >= 224 /\ b <= 239
                 THEN /\ n >= 3
                      /\ Continuation(bs[2]) /\ Continuation(bs[3])
                      /\ (b = 224 => bs[2] >= 160)
                      /\ (b = 237 => bs[2] <= 159)
                      /\ from_utf8(SubSeq(bs, 4, n))
            ELSE IF b >= 240 /\ b <= 244
                 THEN /\ n >= 4
                      /\ Continuation(bs[2]) /\ Continuation(bs[3]) /\ Continuation(bs[4])
                      /\ (b = 240 => bs[2] >= 144)
                      /\ (b = 244 => bs[2] <= 143)
                      /\ from_utf8(SubSeq(bs, 5, n))
            ELSE FALSE

HandshakeInit_to_bytes(v) ==
    <<DEV_HANDSHAKE_INIT>> \o v.sender_id52 \o v.preimage_for_peer
    \o u16_to_be_bytes(AsU16(Len(v.relay_url))) \o v.relay_url
HandshakeInit_from_bytes(d) ==
    IF Len(d) < 1 + 32 + 32 + 2 THEN InvalidData
    ELSE IF At(d, 0) # DEV_HANDSHAKE_INIT THEN InvalidData
    ELSE LET url_len == u16_from_be_bytes(d, 65)
         IN IF Len(d) < 67 + url_len THEN InvalidData
            ELSE IF ~from_utf8(Slice(d, 67, 67 + url_len)) THEN InvalidData
            ELSE [type |-> "HANDSHAKE_INIT", sender_id52 |-> Slice(d, 1, 33),
                  preimage_for_peer |-> Slice(d, 33, 65),
                  relay_url |-> Slice(d, 67, 67 + url_len)]

HandshakeComplete_to_bytes(v) ==
    <<DEV_HANDSHAKE_COMPLETE, v.status>> \o v.preimage_for_peer
    \o u16_to_be_bytes(AsU16(Len(v.relay_url))) \o v.relay_url
HandshakeComplete_from_bytes(d) ==
    IF Len(d) < 1 + 1 + 32 + 2 THEN InvalidData
    ELSE IF At(d, 0) # DEV_HANDSHAKE_COMPLETE THEN InvalidData
    ELSE LET url_len == u16_from_be_bytes(d, 34)
         IN IF Len(d) < 36 + url_len THEN InvalidData
            ELSE IF ~from_utf8(Slice(d, 36, 36 + url_len)) THEN InvalidData
            ELSE [type |-> "HANDSHAKE_COMPLETE", status |-> At(d, 1),
                  preimage_for_peer |-> Slice(d, 2, 34),
                  relay_url |-> Slice(d, 36, 36 + url_len)]

DeviceMessage_to_bytes(v) ==
    <<DEV_MESSAGE, v.content_type>>
    \o u16_to_be_bytes(AsU16(Len(v.relay_url))) \o v.relay_url
    \o u32_to_be_bytes(AsU32(Len(v.content))) \o v.content
DeviceMessage_from_bytes(d) ==
    IF Len(d) < 1 + 1 + 2 THEN InvalidData
    ELSE IF At(d, 0) # DEV_MESSAGE THEN InvalidData
    ELSE LET url_len == u16_from_be_bytes(d, 2)
             content_start == 4 + url_len
         IN IF Len(d) < 4 + url_len + 4 THEN InvalidData
            ELSE IF ~from_utf8(Slice(d, 4, 4 + url_len)) THEN InvalidData
            ELSE LET content_len == u32_from_be_bytes(d, content_start)
                 IN IF Len(d) < content_start + 4 + content_len THEN InvalidData
                    ELSE [type |-> "MESSAGE", content_type |-> At(d, 1),
                          relay_url |-> Slice(d, 4, 4 + url_len),
                          content |-> Slice(d, content_start + 4,
                                            content_start + 4 + content_len)]

DeviceMessageResponse_to_bytes(v) ==
    <<DEV_MESSAGE_RESPONSE, v.status>> \o v.next_preimage
    \o u16_to_be_bytes(AsU16(Len(v.relay_url))) \o v.relay_url
    \o u32_to_be_bytes(AsU32(Len(v.content))) \o v.content
DeviceMessageResponse_from_bytes(d) ==
    IF Len(d) < 1 + 1 + 32 + 2 THEN InvalidData
    ELSE IF At(d, 0) # DEV_MESSAGE_RESPONSE THEN InvalidData
    ELSE LET url_len == u16_from_be_bytes(d, 34)
             content_start == 36 + url_len
         IN IF Len(d) < 36 + url_len + 4 THEN InvalidData
            ELSE IF ~from_utf8(Slice(d, 36, 36 + url_len)) THEN InvalidData
            ELSE LET content_len == u32_from_be_bytes(d, content_start)
                 IN IF Len(d) < content_start + 4 + content_len THEN InvalidData
                    ELSE [type |-> "MESSAGE_RESPONSE", status |-> At(d, 1),
                          next_preimage |-> Slice(d, 2, 34),
                          relay_url |-> Slice(d, 36, 36 + url_len),
                          content |-> Slice(d, content_start + 4,
                                            content_start + 4 + content_len)]

\* parse_device_msg_type on bytes: data.first().copied(), -1 for None.
first(d) == IF d = <<>> THEN -1 ELSE d[1]

\* --- framing
MSG_HELLO == 1
MSG_I_AM == 2
MSG_SEND == 3
MSG_DELIVER == 4
MSG_ACK == 5
MSG_SEND_RESULT == 7
MSG_UPDATE_COMMITS == 8
FrameTooLarge == 1048576
UnexpectedEof == [type |-> "Eof"]

\* Frame::write_to / async_io::write_frame: the bytes put on the stream.
Frame_write_to(f) ==
    u16_to_be_bytes(f.msg_type) \o u32_to_be_bytes(AsU32(Len(f.payload))) \o f.payload
\* Frame::read_from / async_io::read_frame on a stream holding the bytes d.
Frame_read_from(d) ==
    IF Len(d) < 6 THEN UnexpectedEof
    ELSE LET len == u32_from_be_bytes(d, 2)
         IN IF len > FrameTooLarge THEN InvalidData
            ELSE IF Len(d) < 6 + len THEN UnexpectedEof
            ELSE [type |-> "Frame", msg_type |-> u16_from_be_bytes(d, 0),
                  payload |-> Slice(d, 6, 6 + len)]

\* Frame::hello, Frame::i_am, ... : the frame that carries a message.
FrameOf(v) ==
    CASE v.type = "HELLO" -> [msg_type |-> MSG_HELLO, payload |-> Hello_to_bytes(v)]
      [] v.type = "I_AM" -> [msg_type |-> MSG_I_AM, payload |-> IAm_to_bytes(v)]
      [] v.type = "SEND" -> [msg_type |-> MSG_SEND, payload |-> Send_to_bytes(v)]
      [] v.type = "DELIVER" -> [msg_type |-> MSG_DELIVER, payload |-> Deliver_to_bytes(v)]
      [] v.type = "ACK" -> [msg_type |-> MSG_ACK, payload |-> Ack_to_bytes(v)]
      [] v.type = "SEND_RESULT" ->
            [msg_type |-> MSG_SEND_RESULT, payload |-> SendResult_to_bytes(v)]
      [] v.type = "UPDATE_COMMITS" ->
            [msg_type |-> MSG_UPDATE_COMMITS, payload |-> UpdateCommits_to_bytes(v)]
\* The receiver's match on msg_type, then from_bytes of the payload.
MessageOf(f) ==
    CASE f.msg_type = MSG_HELLO -> Hello_from_bytes(f.payload)
      [] f.msg_type = MSG_I_AM -> IAm_from_bytes(f.payload)
      [] f.msg_type = MSG_SEND -> Send_from_bytes(f.payload)
      [] f.msg_type = MSG_DELIVER -> Deliver_from_bytes(f.payload)
      [] f.msg_type = MSG_ACK -> Ack_from_bytes(f.payload)
      [] f.msg_type = MSG_SEND_RESULT -> SendResult_from_bytes(f.payload)
      [] f.msg_type = MSG_UPDATE_COMMITS -> UpdateCommits_from_bytes(f.payload)
      [] OTHER -> InvalidData

DeviceBytes(v) ==
    CASE v.type = "HANDSHAKE_INIT" -> HandshakeInit_to_bytes(v)
      [] v.type = "HANDSHAKE_COMPLETE" -> HandshakeComplete_to_bytes(v)
      [] v.type = "MESSAGE" -> DeviceMessage_to_bytes(v)
      [] v.type = "MESSAGE_RESPONSE" -> DeviceMessageResponse_to_bytes(v)
DeviceMessageOf(d) ==
    CASE first(d) = DEV_HANDSHAKE_INIT -> HandshakeInit_from_bytes(d)
      [] first(d) = DEV_HANDSHAKE_COMPLETE -> HandshakeComplete_from_bytes(d)
      [] first(d) = DEV_MESSAGE -> DeviceMessage_from_bytes(d)
      [] first(d) = DEV_MESSAGE_RESPONSE -> DeviceMessageResponse_from_bytes(d)
      [] OTHER -> InvalidData

\* --- invite tokens: data_encoding::BASE64URL_NOPAD over id52 followed by preimage.
\* A token is a sequence of characters.
Alphabet ==
    <<"A", "B", "C", "D", "E", "F", "G", "H", "I", "J", "K", "L", "M", "N", "O", "P",
      "Q", "R", "S", "T", "U", "V", "W", "X", "Y", "Z", "a", "b", "c", "d", "e", "f",
      "g", "h", "i", "j", "k", "l", "m", "n", "o", "p", "q", "r", "s", "t", "u", "v",
      "w", "x", "y", "z", "0", "1", "2", "3", "4", "5", "6", "7", "8", "9", "-", "_">>

\* Six bits per character, most significant first; the last character of an
\* unpadded token carries the remaining bits followed by zeros.
RECURSIVE Sextets(_)
Sextets(bs) ==
    IF Len(bs) = 0 THEN <<>>
    ELSE IF Len(bs) = 1 THEN <<bs[1] \div 4, (bs[1] % 4) * 16>>
    ELSE IF Len(bs) = 2
         THEN <<bs[1] \div 4, (bs[1] % 4) * 16 + bs[2] \div 16, (bs[2] % 16) * 4>>
    ELSE <<bs[1] \div 4, (bs[1] % 4) * 16 + bs[2] \div 16,
           (bs[2] % 16) * 4 + bs[3] \div 64, bs[3] % 64>>
         \o Sextets(SubSeq(bs, 4, Len(bs)))
BASE64URL_NOPAD_encode(bs) == [i \in DOMAIN Sextets(bs) |-> Alphabet[Sextets(bs)[i] + 1]]

\* The value of a character, 64 for a character outside the alphabet.
Symbol(c) ==
    IF \E i \in DOMAIN Alphabet : Alphabet[i] = c
    THEN (CHOOSE i \in DOMAIN Alphabet : Alphabet[i] = c) - 1
    ELSE 64
RECURSIVE Octets(_)
Octets(sx) ==
    IF Len(sx) < 2 THEN <<>>
    ELSE IF Len(sx) = 2 THEN <<sx[1] * 4 + sx[2] \div 16>>
    ELSE IF Len(sx) = 3
         THEN <<sx[1] * 4 + sx[2] \div 16, (sx[2] % 16) * 16 + sx[3] \div 4>>
    ELSE <<sx[1] * 4 + sx[2] \div 16, (sx[2] % 16) * 16 + sx[3] \div 4,
           (sx[3] % 4) * 64 + sx[4]>>
         \o Octets(SubSeq(sx, 5, Len(sx)))
\* decode fails on a character outside the alphabet, on a length of 1 mod 4 and on
\* non-zero bits after the last byte.
BASE64URL_NOPAD_decode(t) ==
    LET sx == [i \in DOMAIN t |-> Symbol(t[i])]
        n == Len(t)
    IN IF \E i \in DOMAIN sx : sx[i] = 64 THEN [ok |-> FALSE, data |-> <<>>]
       ELSE IF n % 4 = 1 THEN [ok |-> FALSE, data |-> <<>>]
       ELSE IF n % 4 = 2 /\ sx[n] % 16 # 0 THEN [ok |-> FALSE, data |-> <<>>]
       ELSE IF n % 4 = 3 /\ sx[n] % 4 # 0 THEN [ok |-> FALSE, data |-> <<>>]
       ELSE [ok |-> TRUE, data |-> Octets(sx)]

create_invite_token(id52, preimage) == BASE64URL_NOPAD_encode(id52 \o preimage)
parse_invite_token(token) ==
    LET decoded == BASE64URL_NOPAD_decode(token)
        data == decoded.data
    IN IF ~decoded.ok THEN [type |-> "Err", msg |-> "invalid base64url"]
       ELSE IF Len(data) # 64 THEN [type |-> "Err", msg |-> "token must be 64 bytes"]
       ELSE [type |-> "INVITE", id52 |-> Slice(data, 0, 32), preimage |-> Slice(data, 32, 64)]

\* --- the values the codec is applied to; one value is encoded and decoded per run
MaxItems == 2
Fill(n, b) == [i \in 1..n |-> b]
Keys == {Fill(32, 0), Fill(32, 255), [i \in 1..32 |-> i]}
Hashes == {Fill(32, 0), [i \in 1..32 |-> 256 - i]}
Signatures == {[i \in 1..64 |-> 2 * i]}
Blobs == {<<>>, <<123>>, <<0, 255, 1>>}
\* "", "r:1", "é"
Urls == {<<>>, <<114, 58, 49>>, <<195, 169>>}
\* u32 values; the checker's integers end at 2^31 - 1
Words == {0, 258, 2147483647}
Lists(S) == UNION {[1..k -> S] : k \in 0..MaxItems}

RelayValues ==
    {[type |-> "HELLO", version |-> v, nonce |-> n, max_payload_size |-> m] :
        v \in {1, 255}, n \in Words, m \in Words}
    \cup {[type |-> "I_AM", id52 |-> k, signature |-> g, commits |-> cs,
           recent_responses |-> rr] :
             k \in Hashes, g \in Signatures, cs \in Lists(Hashes),
             rr \in Lists([preimage : Hashes, response : {<<>>, <<0, 255, 1>>}])}
    \cup {[type |-> "SEND", to_id52 |-> k, preimage |-> p, payload |-> b] :
             k \in Keys, p \in Keys, b \in Blobs}
    \cup {[type |-> "DELIVER", msg_id |-> m, payload |-> b] : m \in Words, b \in Blobs}
    \cup {[type |-> "ACK", msg_id |-> m, payload |-> b] : m \in Words, b \in Blobs}
    \cup {[type |-> "SEND_RESULT", status |-> st, payload |-> b] : st \in 0..4, b \in Blobs}
    \cup {[type |-> "UPDATE_COMMITS", commits |-> cs] : cs \in Lists(Keys)}
DeviceValues ==
    {[type |-> "HANDSHAKE_INIT", sender_id52 |-> k, preimage_for_peer |-> p,
      relay_url |-> u] : k \in Keys, p \in Keys, u \in Urls}
    \cup {[type |-> "HANDSHAKE_COMPLETE", status |-> st, preimage_for_peer |-> p,
           relay_url |-> u] : st \in {0, 1}, p \in Keys, u \in Urls}
    \cup {[type |-> "MESSAGE", content_type |-> c, relay_url |-> u, content |-> b] :
             c \in {0, 1}, u \in Urls, b \in Blobs}
    \cup {[type |-> "MESSAGE_RESPONSE", status |-> st, next_preimage |-> p,
           relay_url |-> u, content |-> b] :
             st \in {0, 1}, p \in Keys, u \in Urls, b \in Blobs}
\* What a user can paste as a token: a token of another length, a token cut short, a
\* token with a character outside the alphabet or with stray bits in its last character.
TypedTokens ==
    {BASE64URL_NOPAD_encode(Fill(n, 9)) : n \in {0, 32, 63, 64, 65, 66, 96}}
    \cup {create_invite_token(k, p) : k \in Keys, p \in Keys}
    \cup {SubSeq(create_invite_token(k, k), 1, n) : k \in Keys, n \in {84, 85}}
    \cup {[create_invite_token(k, k) EXCEPT ![86] = c] : k \in Keys, c \in {"=", "B", "Q"}}

NoValue == [type |-> "none"]

\* Frame::write_to of the frame of a message; read_frame and from_bytes at the peer.
WriteFrame ==
    /\ codec.layer = "none"
    /\ \E v \in RelayValues :
          codec' = [layer |-> "frame", value |-> v, bytes |-> Frame_write_to(FrameOf(v)),
                    decoded |-> NoValue]
    /\ UNCHANGED <<relayVars, sessVars, now, histVars, state, disk, ep, rng, tokens, renewed>>
ReadFrame ==
    /\ codec.layer = "frame" /\ codec.decoded = NoValue
    /\ LET f == Frame_read_from(codec.bytes)
       IN codec' = [codec EXCEPT !.decoded = IF f.type = "Frame" THEN MessageOf(f) ELSE f]
    /\ UNCHANGED <<relayVars, sessVars, now, histVars, state, disk, ep, rng, tokens, renewed>>
\* to_bytes of a device-layer message; from_bytes by its first byte at the peer.
WriteDevice ==
    /\ codec.layer = "none"
    /\ \E v \in DeviceValues :
          codec' = [layer |-> "device", value |-> v, bytes |-> DeviceBytes(v),
                    decoded |-> NoValue]
    /\ UNCHANGED <<relayVars, sessVars, now, histVars, state, disk, ep, rng, tokens, renewed>>
ReadDevice ==
    /\ codec.layer = "device" /\ codec.decoded = NoValue
    /\ codec' = [codec EXCEPT !.decoded = DeviceMessageOf(codec.bytes)]
    /\ UNCHANGED <<relayVars, sessVars, now, histVars, state, disk, ep, rng, tokens, renewed>>
\* create_invite_token, a token typed by hand, and parse_invite_token.
WriteToken ==
    /\ codec.layer = "none"
    /\ \E k \in Keys, p \in Keys :
          codec' = [layer |-> "token", value |-> [type |-> "INVITE", id52 |-> k, preimage |-> p],
                    bytes |-> create_invite_token(k, p), decoded |-> NoValue]
    /\ UNCHANGED <<relayVars, sessVars, now, histVars, state, disk, ep, rng, tokens, renewed>>
TypeToken ==
    /\ codec.layer = "none"
    /\ \E t \in TypedTokens :
          codec' = [layer |-> "token", value |-> NoValue, bytes |-> t, decoded |-> NoValue]
    /\ UNCHANGED <<relayVars, sessVars, now, histVars, state, disk, ep, rng, tokens, renewed>>
ParseToken ==
    /\ codec.layer = "token" /\ codec.decoded = NoValue
    /\ codec' = [codec EXCEPT !.decoded = parse_invite_token(codec.bytes)]
    /\ UNCHANGED <<relayVars, sessVars, now, histVars, state, disk, ep, rng, tokens, renewed>>

CodecInit == InitRelay /\ InitNodes({"node"})
CodecNext ==
    \/ WriteFrame \/ ReadFrame
    \/ WriteDevice \/ ReadDevice
    \/ WriteToken \/ TypeToken \/ ParseToken
CodecSpec == CodecInit /\ [][CodecNext]_vars

\* C26: decoding the encoding of a relay message, of a device-layer message and of
\* an invite token yields the value that was encoded, and parse_invite_token
\* accepts a token only if its base64url decoding is exactly 64 bytes long.
C26_RoundTrip ==
    /\ (codec.value # NoValue /\ codec.decoded # NoValue) => codec.decoded = codec.value
    /\ (codec.layer = "token" /\ codec.decoded.type = "INVITE")
        => /\ BASE64URL_NOPAD_decode(codec.bytes).ok
           /\ Len(BASE64URL_NOPAD_decode(codec.bytes).data) = 64
C26_Witness ==
    /\ codec.layer = "frame" /\ codec.value.type = "I_AM"
    /\ Len(codec.value.commits) = 2 /\ Len(codec.value.recent_responses) = 2
    /\ codec.decoded = codec.value


\* ============================================================ the first frame
\* The first frame any client writes in a run is the first frame of its session.
FirstFrame == frames = 0 /\ frames' = 1

\* C27: the session expects I_AM as the first frame after HELLO.  When the first
\* frame is handled, either it was an I_AM that registered its sender, or the
\* session rejected it (the connection is closed) and nothing was routed, correlated
\* or registered: the router and every route_message call are as before.
C27_FirstFrameMustBeIAm ==
    [][FirstFrame
       => \E s \in Sessions :
             \/ sess'[s].id52 # None
             \/ /\ sess'[s].status = "closed"
                /\ route' = route
                /\ relayVars' = relayVars]_vars


\* ==================================================== who may acknowledge
\* The session DELIVER(m) was sent to: the one registered for the recipient of the
\* SEND that was given m (in FlightSpec an endpoint registers once).
DeliveredTo(m) == devices[sent[m]].sender

\* C28: an ACK read on a session that never sent I_AM, or on any session other
\* than the one DELIVER(msg_id) was sent to, does not complete the pending request
\* of msg_id and inserts nothing into the response cache.
C28_AckOnlyFromRecipient ==
    [][\A u \in Sessions :
          (/\ Reads(u, "ACK")
           /\ Head(inbox[u]).msg_id \in DOMAIN pending
           /\ (sess[u].id52 = None \/ u # DeliveredTo(Head(inbox[u]).msg_id)))
          => /\ pending' = pending
             /\ response_cache' = response_cache
             /\ route' = route]_vars


\* ======================================================= protocol violations
\* Session u takes frame f off its connection in this step.
Takes(u, f) == Reading(u) /\ inbox[u] = <<f>> /\ inbox'[u] = <<>>
BadSignature(f) == f.msg_type = "I_AM" /\ ~f.sig_ok
Violation(f) == f.msg_type \in {"UNKNOWN", "MALFORMED", "OVERSIZE"} \/ BadSignature(f)

\* C29: a frame of an unknown type, a truncated payload, a frame longer than 1 MiB
\* or an I_AM whose signature does not verify ends the connection with no reply,
\* and an I_AM that fails verification leaves devices and response_cache as they were.
C29_ViolationTerminates ==
    [][\A u \in Sessions :
          (inbox[u] # <<>> /\ Violation(Head(inbox[u])) /\ Takes(u, Head(inbox[u])))
          => /\ sess'[u].status = "closed"
             /\ route'[u].pc = "idle" /\ outbox' = outbox
             /\ BadSignature(Head(inbox[u]))
                 => devices' = devices /\ response_cache' = response_cache]_vars


\* ================================================================ cache hits
\* C30: a SEND whose preimage has an unexpired entry in response_cache is served
\* from the cache without routing: the call takes the entry out and returns OK with
\* the cached bytes, msg_id unallocated; devices (every commit set), pending,
\* next_msg_id and every delivery queue stay as they were, in the lookup and in the
\* reply; the entry being gone, the next SEND of that preimage is not served by it.
C30_CacheHitServedWithoutRouting ==
    [][\A s \in Sessions :
          /\ (/\ LooksUp(s)
              /\ route'[s].preimage \in DOMAIN response_cache
              /\ response_cache[route'[s].preimage].expires_at > now)
             => /\ ServedFromCache(s)'
                /\ route'[s].response = response_cache[route'[s].preimage].response
                /\ route'[s].preimage \notin DOMAIN response_cache'
                /\ \A p \in DOMAIN response_cache \ {route'[s].preimage} :
                      p \in DOMAIN response_cache' /\ response_cache'[p] = response_cache[p]
                /\ devices' = devices /\ pending' = pending
                /\ next_msg_id' = next_msg_id /\ rx' = rx
          /\ (ServedFromCache(s) /\ route'[s].pc = "idle" /\ sess'[s].status = "open")
             => /\ relayVars' = relayVars /\ rx' = rx
                /\ link[s] = "up"
                    => outbox'[s] = Append(outbox[s],
                                       SendResultFrame(SEND_OK, route[s].response))]_vars
\* A retried SEND is being answered from the cache with the bytes of an ACK while
\* another SEND of the same preimage, looked up after it, found the cache empty.
C30_Witness ==
    \E s, t \in Sessions :
        /\ s # t
        /\ ServedFromCache(s) /\ route[s].response \in ClientResponses
        /\ route[t].pc = "validate" /\ route[t].preimage = route[s].preimage
        /\ route[s].preimage \notin DOMAIN response_cache


\* ============================================================== cache expiry
\* A step of the relay that handles no frame and changes the cache: the sweep.
Sweeps == frames' = frames /\ response_cache' # response_cache

\* C31: a cached response is never returned at or after its expiry time: a lookup
\* returns from the cache only an entry whose expires_at is later than now; a SEND
\* that finds an expired entry goes on to commit validation with no response in
\* hand; cleanup_cache removes exactly the entries whose expires_at is not later
\* than now and leaves the others as they were.
C31_ExpiredNeverServed ==
    [][/\ \A s \in Sessions :
             LooksUp(s) =>
                LET p == route'[s].preimage IN
                /\ route'[s].pc = "reply"
                    => /\ p \in DOMAIN response_cache
                       /\ now < response_cache[p].expires_at
                /\ (p \in DOMAIN response_cache /\ response_cache[p].expires_at <= now)
                    => /\ route'[s].pc = "validate"
                       /\ route'[s].response = EmptyPayload
                       /\ route'[s].msg_id = 0
       /\ Sweeps
           => /\ DOMAIN response_cache' =
                    {p \in DOMAIN response_cache : response_cache[p].expires_at > now}
              /\ \A p \in DOMAIN response_cache' : response_cache'[p] = response_cache[p]
              /\ devices' = devices /\ pending' = pending]_vars
\* A SEND of a preimage whose ACK had been cached was looked up when the entry had
\* expired and is on its way to commit validation; no sweep has run since the
\* expiry, for another expired entry is still in the cache.
C31_Witness ==
    \E s \in Sessions, to \in Ids, p, q \in Preimages :
        /\ p # q
        /\ route[s].pc = "validate" /\ route[s].preimage = p
        /\ <<to, p>> \in DOMAIN admitted /\ admitted[<<to, p>>] = 0
        /\ q \in DOMAIN response_cache /\ response_cache[q].expires_at <= now


\* ============================================================ failed enqueue
\* route_message of session s finds the delivery channel of its recipient closed.
EnqueueFails(s) ==
    /\ route[s].pc = "enqueue" /\ route'[s].pc # "enqueue"
    /\ sess[s].status = "open" /\ sess[route[s].sender].status # "open"

\* C32: when the enqueue of the DELIVER fails because the recipient's channel is
\* closed, route_message takes its msg_id out of pending, leaving every other
\* entry, and returns DISCONNECTED with an empty payload, which the session writes
\* as SEND_RESULT; nothing is queued and devices is untouched, so the commit that
\* validation removed is not put back.
C32_FailedEnqueueCleansUp ==
    [][\A s \in Sessions :
          /\ EnqueueFails(s)
             => /\ pending' = [m \in DOMAIN pending \ {route[s].msg_id} |-> pending[m]]
                /\ route'[s].pc = "reply"
                /\ route'[s].status = SEND_ERR_DISCONNECTED
                /\ route'[s].response = EmptyPayload
                /\ rx' = rx /\ devices' = devices
                /\ response_cache' = response_cache /\ next_msg_id' = next_msg_id
          /\ (/\ route[s].pc = "reply" /\ route[s].status = SEND_ERR_DISCONNECTED
              /\ route'[s].pc = "idle" /\ sess'[s].status = "open")
             => /\ relayVars' = relayVars
                /\ link[s] = "up"
                    => outbox'[s] = Append(outbox[s],
                           SendResultFrame(SEND_ERR_DISCONNECTED, EmptyPayload))]_vars
\* A SEND was admitted, its recipient's session ended before the enqueue, and the
\* call is returning DISCONNECTED: its msg_id is no longer pending, the recipient
\* is still in devices and the commit of the preimage is not in its set.
C32_Witness ==
    \E s \in Sessions :
        /\ route[s].pc = "reply" /\ route[s].status = SEND_ERR_DISCONNECTED
        /\ route[s].msg_id # 0 /\ route[s].msg_id \notin DOMAIN pending
        /\ route[s].to_id52 \in DOMAIN devices
        /\ devices[route[s].to_id52].sender = route[s].sender
        /\ sha256(route[s].preimage) \notin devices[route[s].to_id52].commits
        /\ \A u \in Sessions : \A i \in DOMAIN rx[u] : rx[u][i].msg_id # route[s].msg_id


\* ======================================================= msg_id allocation
\* route_message of session s admits its SEND and takes a msg_id.
Allocates(s) == route[s].pc = "validate" /\ route'[s].pc = "enqueue"

\* C33: msg_ids are handed out strictly increasing, one per admitted SEND: an
\* admission takes the counter's value and advances the counter by one, no other
\* step moves the counter; the msg_id taken was never handed out before, no other
\* call holds it, and the insert into pending adds an entry without replacing one.
C33_MsgIdsStrictlyIncreasing ==
    [][/\ next_msg_id' # next_msg_id => \E s \in Sessions : Allocates(s)
       /\ \A s \in Sessions :
             Allocates(s)
             => LET m == route'[s].msg_id IN
                /\ m = next_msg_id /\ next_msg_id' = next_msg_id + 1
                /\ m \notin DOMAIN sent
                /\ \A k \in DOMAIN sent : k < m
                /\ \A t \in Sessions \ {s} : route'[t].msg_id # m
                /\ m \notin DOMAIN pending
                /\ DOMAIN pending' = DOMAIN pending \cup {m}
                /\ pending'[m] = [preimage |-> route[s].preimage, tx |-> s]
                /\ \A k \in DOMAIN pending : pending'[k] = pending[k]]_vars
\* Two route_message calls are in flight at once, the second admitted while the
\* first was waiting: they hold different msg_ids, each with its own pending entry.
C33_Witness ==
    \E s, t \in Sessions :
        /\ s # t
        /\ route[s].pc = "wait" /\ route[t].pc \in {"enqueue", "wait"}
        /\ route[s].msg_id < route[t].msg_id
        /\ {route[s].msg_id, route[t].msg_id} \subseteq DOMAIN pending
        /\ pending[route[s].msg_id].tx = s /\ pending[route[t].msg_id].tx = t
        /\ next_msg_id > route[t].msg_id


\* ========================================================= single-use invites
\* C34: an invite is single-use: the serving loop accepts at most one
\* HANDSHAKE_INIT per invite preimage; a HANDSHAKE_INIT delivered with the preimage
\* of an invite that was accepted before is answered REJECTED and leaves the peers
\* of the inviter as they were.
C34_InviteSingleUse ==
    [][\A e \in Servers :
          (/\ Handles(e)
           /\ parse_device_msg_type(Delivered(e).payload) = DEV_HANDSHAKE_INIT
           /\ Delivered(e).preimage \in ep[e].accepted)
          => /\ AckOf(e).payload.status = HANDSHAKE_REJECTED
             /\ state'[e].peers = state[e].peers]_vars


\* ================================================================ peer roles
\* The established peers of e whose role differs after the step.
RoleChanged(e) ==
    {id \in DOMAIN state[e].peers \cap DOMAIN state'[e].peers :
        state'[e].peers[id].role # state[e].peers[id].role}
\* The peers e has after the step and did not have before.
Created(e) == DOMAIN state'[e].peers \ DOMAIN state[e].peers
\* The step accepts a HANDSHAKE_INIT of id, and id has the role of the invite used.
AcceptsWithRole(e, id) ==
    /\ Accepts(e)
    /\ Delivered(e).payload.sender_id52 = id
    /\ Delivered(e).preimage \in DOMAIN state[e].invites
    /\ state'[e].peers[id].role = state[e].invites[Delivered(e).preimage]

PeerDelivery(e) ==
    /\ Handles(e) /\ ep[e].lib \in {"node", "device", "esp32"}
    /\ PeerOf(ep[e].lib, state[e], Delivered(e).preimage) # None

\* C36: every DELIVER whose preimage is an issued preimage of an established peer
\* is answered with exactly one rotation, whatever the payload and the outcome of
\* the request: the old preimage no longer reaches the peer, one successor does,
\* the peer holds as many preimages as before, the successor is appended to the
\* response and its commit goes to the relay in UPDATE_COMMITS.
C36_EveryDeliveryRotates ==
    [][\A e \in Servers :
          PeerDelivery(e)
          => /\ Renews(e)
             /\ LET lib == ep[e].lib
                    old == Delivered(e).preimage
                    new == renewed'[old].next
                    peer == PeerOf(lib, state[e], old) IN
                /\ PeerOf(lib, state'[e], old) = None
                /\ PeerOf(lib, state'[e], new) = peer
                /\ IssuedTo(lib, state'[e], peer) = IssuedTo(lib, state[e], peer)
                /\ AckOf(e).payload.tag = "response"
                /\ AckOf(e).payload.next = new
                /\ CommitsOf(e) = {sha256(new)}]_vars


\* ======================================================== pending and returns
\* The route_message call that installed pending[m] has not returned: it is about
\* to enqueue its DELIVER or waits for the response.
Awaiting(m) ==
    LET s == pending[m].tx IN
    /\ sess[s].status = "open"
    /\ route[s].msg_id = m /\ route[s].pc \in {"enqueue", "wait"}

\* C37: every entry of pending belongs to a route_message call that is still
\* awaiting its response; once the call has returned, with OK, TIMEOUT or
\* DISCONNECTED, pending holds nothing under its msg_id, so an ACK that arrives
\* after the return finds no entry and puts nothing into the cache.
C37_PendingOnlyWhileAwaiting ==
    [][/\ \A m \in DOMAIN pending' : Awaiting(m)'
       /\ \A m \in DOMAIN pending \ DOMAIN pending' :
             response_cache' # response_cache => Awaiting(m)]_vars


\* =============================================================== crossing SENDs
\* The other endpoint.
Other(e) == IF e = "A" THEN "B" ELSE "A"

\* A is registered on connection 1 and B on connection 2, each with a commit for
\* every preimage the other holds; nothing is in flight.
CrossInit ==
    /\ devices = Register(Register(EmptyMap, "A", Commits, 1), "B", Commits, 2)
    /\ response_cache = EmptyMap
    /\ pending = EmptyMap
    /\ next_msg_id = 1
    /\ sess = [s \in Sessions |->
                 IF s = 1 THEN [status |-> "open", id52 |-> "A"]
                 ELSE IF s = 2 THEN [status |-> "open", id52 |-> "B"]
                 ELSE [status |-> "new", id52 |-> None]]
    /\ route = [s \in Sessions |-> IdleRoute]
    /\ rx = [s \in Sessions |-> <<>>]
    /\ inbox = [s \in Sessions |-> <<>>]
    /\ outbox = [s \in Sessions |-> <<>>]
    /\ link = [s \in Sessions |-> IF s \in {1, 2} THEN "up" ELSE "down"]
    /\ now = 0
    /\ admitted = EmptyMap
    /\ sent = EmptyMap
    /\ acked = EmptyMap
    /\ loaded = EmptyMap
    /\ frames = 0
    /\ state = [e \in Ids |-> EmptyState]
    /\ disk = [e \in Ids |-> EmptyState]
    /\ ep = [e \in Ids |-> [IdleEndpoint("node") EXCEPT !.conn = IF e = "A" THEN 1 ELSE 2]]
    /\ rng = 1
    /\ tokens = {}
    /\ renewed = EmptyMap
    /\ codec = NoCodec

\* Endpoint e writes a SEND to the other endpoint with a preimage whose commit the
\* relay holds for it; it has no SEND of its own outstanding, and the clock can
\* still run out the deadline of this SEND.
CrossSend(e) ==
    LET s == ep[e].conn IN
    /\ ep[e].pc \in {"off", "send_ok", "send_err"}
    /\ Len(inbox[s]) < MaxInbox
    /\ now + TickSecs <= MaxTime
    /\ \E p \in Preimages, pl \in ClientPayloads :
          /\ sha256(p) \in devices[Other(e)].commits
          /\ inbox' = [inbox EXCEPT ![s] = Append(@, SendFrame(Other(e), p, pl))]
    /\ ep' = [ep EXCEPT ![e].pc = "send"]
    /\ UNCHANGED <<relayVars, sess, route, rx, outbox, link, now, histVars, state, disk,
                   rng, tokens, renewed, codec>>

\* Endpoint e reads the next frame the relay wrote to it: it answers a DELIVER
\* with an ACK at once, and a SEND_RESULT ends its SEND.
CrossRead(e) ==
    LET s == ep[e].conn
        f == Head(outbox[s]) IN
    /\ outbox[s] # <<>>
    /\ outbox' = [outbox EXCEPT ![s] = Tail(@)]
    /\ IF f.msg_type = "DELIVER"
       THEN /\ Len(inbox[s]) < MaxInbox
            /\ \E r \in ClientResponses :
                  inbox' = [inbox EXCEPT ![s] = Append(@, AckFrame(f.msg_id, r))]
            /\ ep' = ep
       ELSE /\ f.msg_type = "SEND_RESULT"
            /\ ep' = [ep EXCEPT ![e].pc = IF f.status = SEND_OK THEN "send_ok" ELSE "send_err"]
            /\ inbox' = inbox
    /\ UNCHANGED <<relayVars, sess, route, rx, link, now, histVars, state, disk,
                   rng, tokens, renewed, codec>>

\* Time passes only when neither the relay nor an endpoint has a step to take: a
\* deadline that runs out here ran out with everybody waiting.
CrossElapse ==
    /\ Quiet /\ \A s \in Sessions : outbox[s] = <<>>
    /\ \E s \in Sessions : route[s].pc = "wait"
    /\ Tick

\* What the relay and the endpoints do by themselves.
CrossProgress ==
    \/ \E e \in Ids : CrossRead(e)
    \/ \E s \in Sessions : SessionRead(s)
    \/ \E s \in Sessions : RouteValidate(s)
    \/ \E s \in Sessions : RouteEnqueue(s)
    \/ \E s \in Sessions : RouteResponse(s)
    \/ \E s \in Sessions : RouteTimeout(s)
    \/ \E s \in Sessions : SessionReply(s)
    \/ \E s \in Sessions : SessionDeliver(s)
    \/ CrossElapse

CrossNext ==
    \/ \E e \in Ids : CrossSend(e)
    \/ CrossProgress

CrossSpec == CrossInit /\ [][CrossNext]_vars

\* The tasks of the relay are scheduled and the endpoints read what arrives.
CrossLive == CrossSpec /\ WF_vars(CrossProgress)

\* C38: a session with a SEND of its own awaiting its response keeps emitting
\* DELIVERs and reading ACKs, so when A and B send to each other at overlapping
\* times, each with a valid preimage and each acknowledging every DELIVER it
\* receives, every SEND completes with status OK.
C38_CrossingSendsComplete ==
    \A e \in Ids : (ep[e].pc = "send") ~> (ep[e].pc = "send_ok")

\* ======================================================= registration ownership
\* handle_i_am verifies the signature against the id52 the frame names, whatever
\* the session registered before: a client that holds both keys can authenticate
\* as A or as B on any connection, and again on the same connection.
OwnerFrames ==
    {IAmFrame(id, TRUE, Commits, <<>>) : id \in Ids}
    \cup {SendFrame(to, p, pl) : to \in Ids, p \in Preimages, pl \in ClientPayloads}
    \cup {AckFrame(m, pl) : m \in AckIds, pl \in ClientResponses}

\* The client writes a frame and the session reads it.
OwnerFrame(s) ==
    /\ frames < MaxFrames /\ link[s] = "sink"
    /\ frames' = frames + 1
    /\ \E f \in OwnerFrames : HandleFrame(s, f, <<>>)
    /\ UNCHANGED <<now, nodeVars>>

OwnerNext ==
    \/ \E s \in Sessions : ClientConnect(s)
    \/ \E s \in Sessions : OwnerFrame(s)
    \/ \E s \in Sessions : ClientClose(s)
    \/ \E s \in Sessions : RelayStep(s)
    \/ Tick

OwnerSpec == Init /\ [][OwnerNext]_vars

\* Session s is live and authenticated as id.
LiveAs(s, id) == sess[s].status = "open" /\ sess[s].id52 = id
\* Session s registers id in this step.
Registers(s, id) ==
    /\ sess'[s].status = "open" /\ sess'[s].id52 = id
    /\ id \in DOMAIN devices' /\ devices'[id].sender = s
    /\ (id \notin DOMAIN devices \/ devices[id] # devices'[id] \/ sess[s].id52 # id)

\* C39: of two sessions authenticated with one identifier the later registration
\* replaces the earlier one, and the registration a live session installed is
\* taken from it only by a later registration of the same identifier: an
\* unregister that another session triggers with its second I_AM or at its end
\* leaves it in place.
C39_RegistrationOwned ==
    [][\A id \in DOMAIN devices :
          LET o == devices[id].sender IN
          (LiveAs(o, id) /\ sess'[o].status = "open" /\ sess'[o].id52 = id)
              => /\ id \in DOMAIN devices'
                 /\ \/ devices'[id].sender = o
                    \/ \E s \in Sessions \ {o} : Registers(s, id)]_vars

\* ============================================================ failed attempts
RoutingFailures ==
    {SEND_ERR_NOT_CONNECTED, SEND_ERR_INVALID_PREIMAGE, SEND_ERR_TIMEOUT,
     SEND_ERR_DISCONNECTED}

\* The send of e returns in this step: it has read a SEND_RESULT with a failure
\* status, or its connection has failed.
SendFails(e) ==
    /\ ep[e].pc = "send" /\ ep'[e].pc # "send"
    /\ \/ /\ outbox'[ep[e].conn] # outbox[ep[e].conn]
          /\ Head(outbox[ep[e].conn]).msg_type = "SEND_RESULT"
          /\ Head(outbox[ep[e].conn]).status \in RoutingFailures
       \/ /\ outbox'[ep[e].conn] = outbox[ep[e].conn]
          /\ link[ep[e].conn] = "up" /\ link'[ep[e].conn] = "down"

\* C40: a command attempt that ends with a routing failure (status NOT_CONNECTED,
\* INVALID_PREIMAGE, TIMEOUT or DISCONNECTED, or a connection error) leaves the
\* sender's state in memory and on disk as it was, their_preimage of the peer
\* included, so the next attempt sends the preimage this one sent.
C40_FailedSendKeepsPreimage ==
    [][\A e \in Ids :
          SendFails(e) => /\ state'[e] = state[e]
                          /\ disk'[e] = disk[e]
                          /\ get_peer_preimage(state'[e], ep[e].peer) = ep[e].req]_vars

\* A send has failed with a status and the preimage it sent is still the stored one.
C40_Witness ==
    \E e \in Ids :
        /\ ep[e].pc = "send_err" /\ ep[e].how = "status"
        /\ ep[e].req # NoPreimage
        /\ get_peer_preimage(state[e], ep[e].peer) = ep[e].req
        /\ disk[e] = state[e]

====
